---- MODULE Spec2Model ----
(***************************************************************************)
(* World-state and contention-resolution engine of the ethereal-exploration *)
(* multiplayer server.  Two variants of the server are modelled:            *)
(*   - the proximity-battle variant (src/unnamed/part_000), whose           *)
(*     definitions keep the plain source names, and                         *)
(*   - the peer-radiation variant (src/server.js), whose definitions carry  *)
(*     the prefix "srv_".                                                   *)
(* Node runs every handler and timer callback to completion on one thread,  *)
(* so each handler is one atomic action.                                    *)
(*                                                                          *)
(* Numbers.  Positions and times (ms) are integers.  Distances are compared *)
(* through their squares (d <= r  <=>  d*d <= r*r for d, r >= 0).           *)
(* radiationLevel is kept in units of 1/RadScale percent and speed          *)
(* multipliers in thousandths, so that every constant of the source is a    *)
(* whole number.                                                            *)
(***************************************************************************)
EXTENDS Integers, Sequences, FiniteSets, TLC

VARIABLES
    now,               \* Date.now()
    heap,              \* the Player objects ever constructed, by socket id
    players,           \* keys of the `players` registry, in insertion order
    worldObjects,      \* the worldObjects array (index = object id)
    proximityBattles,  \* the proximityBattles Map, in insertion order
    timers,            \* pending setTimeout(respawn) callbacks
    intervals,         \* earliest next firing time of each setInterval loop
    out,               \* events emitted by the last step
    last,              \* the last handler that ran, and what it returned
    variant            \* which server file is running: "pvp" (part_000) or "srv" (server.js)

vars == <<now, heap, players, worldObjects, proximityBattles, timers, intervals, out, last, variant>>

----------------------------------------------------------------------------
(* Settings (part_000 and server.js agree on the ones they share)           *)

stealRadius == 100
proximityKillDistance == 50
proximityKillTime == 6000

baseSpeed == 1000
boostSpeed == 3500
boostDuration == 2000
scoreSpeedBonus == 5
maxScoreSpeed == 2500
radiationKillThreshold == 100

RadScale == 3750
Pct(n) == n * RadScale

OBJECT_TYPES ==
    [ discovery     |-> [points |-> 10, collectRadius |-> 30, respawnTime |-> 30000],
      exploding     |-> [points |-> 15, collectRadius |-> 25, respawnTime |-> 45000],
      rare          |-> [points |-> 50, collectRadius |-> 20, respawnTime |-> 120000],
      spaceCreature |-> [points |-> 25, collectRadius |-> 35, respawnTime |-> 60000],
      ringPortal    |-> [points |-> 5,  collectRadius |-> 30, respawnTime |-> 180000] ]

playerRespawnTime == 5000
inactivityTimeout == 60000
worldInterval == 5000
radiationInterval == 2000
speedInterval == 1000
killBonus == 25

\* radiationIncrement = 0.5 (percent per accrual tick)
radiationIncrement == RadScale \div 2

----------------------------------------------------------------------------
(* Bounds of the model                                                      *)

StartTime == 1000000   \* Date.now() when the process starts
MaxDeaths == 1         \* a player of server.js stops sending updates after this many deaths

----------------------------------------------------------------------------
(* Helpers                                                                  *)

Min(a, b) == IF a < b THEN a ELSE b
Max(a, b) == IF a > b THEN a ELSE b

Range(s) == {s[i] : i \in 1..Len(s)}

RECURSIVE Without(_, _)
Without(s, e) ==
    IF s = <<>> THEN <<>>
    ELSE IF Head(s) = e THEN Without(Tail(s), e)
    ELSE <<Head(s)>> \o Without(Tail(s), e)

\* Math.pow(dx,2) + Math.pow(dy,2) + Math.pow(dz,2): the square of the distance
Dist2(a, b) == (a.x - b.x) * (a.x - b.x) + (a.y - b.y) * (a.y - b.y) + (a.z - b.z) * (a.z - b.z)

\* `data.f || prev`: an absent field, and 0, are falsy
OrElse(data, f, prev) == IF f \in DOMAIN data /\ data[f] # 0 THEN data[f] ELSE prev

\* an emitted event: `to` is a socket id, or 0 for io.emit (everybody)
Ev(name, to, who) == [ev |-> name, to |-> to, who |-> who]

NoResult == [success |-> FALSE, reason |-> "none", by |-> 0, points |-> 0, competitorCount |-> 0]
Last(op, id, arg, res) == [op |-> op, id |-> id, arg |-> arg, result |-> res]

\* the mutable world a handler works on
World == [heap |-> heap, players |-> players, worldObjects |-> worldObjects,
          proximityBattles |-> proximityBattles, timers |-> timers, out |-> <<>>,
          ret |-> NoResult]

Emit(W, e) == [W EXCEPT !.out = Append(@, e)]

Commit(W) ==
    /\ heap' = W.heap
    /\ players' = W.players
    /\ worldObjects' = W.worldObjects
    /\ proximityBattles' = W.proximityBattles
    /\ timers' = W.timers
    /\ out' = W.out

----------------------------------------------------------------------------
(* Entities (part_000)                                                      *)

Player(id, pos, t) ==
    [ id |-> id, x |-> pos.x, y |-> pos.y, z |-> pos.z,
      rotationX |-> 0, rotationY |-> 0,
      radiationLevel |-> 0, score |-> 0,
      discoveries |-> 0, rareItems |-> 0, creatures |-> 0,
      lastUpdate |-> t,
      resourcesStolen |-> 0, resourcesLost |-> 0,
      currentSpeedMultiplier |-> baseSpeed, speedBoostEndTime |-> 0, lastCollectionTime |-> 0,
      deathCount |-> 0, killCount |-> 0, isAlive |-> TRUE, lastDeathTime |-> 0,
      socket |-> "open" ]

\* null of collectedBy / collectedAt
Null == 0

WorldObject(id, type, pos) ==
    [ id |-> id, type |-> type, x |-> pos.x, y |-> pos.y, z |-> pos.z,
      available |-> TRUE, collectedBy |-> Null, collectedAt |-> Null ]

\* generateWorld: ids count up from 1; `layout` lists the type and the random
\* position of each object created
generateWorld(layout) ==
    [i \in 1..Len(layout) |-> WorldObject(i, layout[i].type, layout[i])]

----------------------------------------------------------------------------
(* Player methods (part_000)                                                *)

updateSpeedMultiplier_uncapped(p, t) ==
    LET speedMultiplier == IF t < p.speedBoostEndTime THEN boostSpeed
                           ELSE baseSpeed + p.score * scoreSpeedBonus
    IN  [p EXCEPT !.currentSpeedMultiplier = speedMultiplier]

updateSpeedMultiplier(p, t) ==
    LET scoreBonus == Min(p.score * scoreSpeedBonus, maxScoreSpeed - baseSpeed)
        speedMultiplier == IF t < p.speedBoostEndTime THEN boostSpeed
                           ELSE baseSpeed + scoreBonus
    IN  [p EXCEPT !.currentSpeedMultiplier = speedMultiplier]

giveSpeedBoost(p, t) ==
    [p EXCEPT !.speedBoostEndTime = t + boostDuration, !.lastCollectionTime = t]

addScore(p, points) == [p EXCEPT !.score = @ + points]

\* triggerRadiationDeath after its first line. The respawn timeout joins the
\* 5000 ms timer list of the runtime, which also holds the world loop and runs
\* in the order its timers were armed: `ahead` says that the timeout was armed
\* before the world loop was armed again for its next run (the loop was due or
\* running), and so runs before the loop when both expire together.
die_withoutTimer(W, id, pos, t) ==
    LET W1 == [W EXCEPT !.heap[id] = [@ EXCEPT !.isAlive = FALSE,
                                                !.deathCount = @ + 1,
                                                !.lastDeathTime = t,
                                                !.radiationLevel = 0,
                                                !.x = pos.x, !.y = pos.y, !.z = pos.z]]
    IN  Emit(W1, Ev("player_death", 0, id))

die(W, id, pos, t) ==
    LET W1 == [W EXCEPT !.heap[id] = [@ EXCEPT !.isAlive = FALSE,
                                                !.deathCount = @ + 1,
                                                !.lastDeathTime = t,
                                                !.radiationLevel = 0,
                                                !.x = pos.x, !.y = pos.y, !.z = pos.z]]
        W2 == Emit(W1, Ev("player_death", 0, id))
    IN  [W2 EXCEPT !.timers = Append(@, [player |-> id, due |-> t + playerRespawnTime,
                                         ahead |-> intervals.world <= t])]

triggerRadiationDeath_reentrant(W, id, pos, t) == die(W, id, pos, t)

\* `pos` is the random spawn position drawn by the three Math.random() calls
triggerRadiationDeath(W, id, pos, t) ==
    IF ~W.heap[id].isAlive THEN W ELSE die(W, id, pos, t)

respawn(W, id) ==
    LET W1 == [W EXCEPT !.heap[id] = [@ EXCEPT !.isAlive = TRUE, !.radiationLevel = 0]]
        W2 == Emit(W1, Ev("player_respawn", 0, id))
    IN  Emit(W2, Ev("respawn_complete", id, id))

\* Player.update after its first line
applyUpdate(W, id, data, pos, t) ==
    LET p == W.heap[id]
        p1 == [p EXCEPT !.x = OrElse(data, "x", @),
                        !.y = OrElse(data, "y", @),
                        !.z = OrElse(data, "z", @),
                        !.rotationX = OrElse(data, "rotationX", @),
                        !.rotationY = OrElse(data, "rotationY", @),
                        !.radiationLevel = Min(Pct(100), OrElse(data, "radiationLevel", @)),
                        !.lastUpdate = t]
        p2 == updateSpeedMultiplier(p1, t)
        W1 == [W EXCEPT !.heap[id] = p2]
    IN  IF p2.radiationLevel >= Pct(radiationKillThreshold) /\ p2.isAlive
        THEN triggerRadiationDeath(W1, id, pos, t)
        ELSE W1

update_movesTheDead(W, id, data, pos, t) == applyUpdate(W, id, data, pos, t)

update(W, id, data, pos, t) ==
    IF ~W.heap[id].isAlive THEN W ELSE applyUpdate(W, id, data, pos, t)

----------------------------------------------------------------------------
(* World objects (part_000)                                                 *)

checkRespawnReturns_wrongSign(obj, t) ==
    /\ ~obj.available
    /\ obj.collectedAt # Null
    /\ obj.collectedAt - t < OBJECT_TYPES[obj.type].respawnTime

checkRespawnReturns_atDeadline(obj, t) ==
    /\ ~obj.available
    /\ obj.collectedAt # Null
    /\ t - obj.collectedAt >= OBJECT_TYPES[obj.type].respawnTime

\* the value checkRespawn returns
checkRespawnReturns(obj, t) ==
    /\ ~obj.available
    /\ obj.collectedAt # Null
    /\ t - obj.collectedAt > OBJECT_TYPES[obj.type].respawnTime

checkRespawn_keepsCollector(obj, t) ==
    IF checkRespawnReturns(obj, t)
    THEN [obj EXCEPT !.available = TRUE, !.collectedAt = Null]
    ELSE obj

\* the object after checkRespawn
checkRespawn(obj, t) ==
    IF checkRespawnReturns(obj, t)
    THEN [obj EXCEPT !.available = TRUE, !.collectedBy = Null, !.collectedAt = Null]
    ELSE obj

----------------------------------------------------------------------------
(* Contention resolver (part_000)                                           *)

competingPlayers_countsTheDead(W, playerId, obj) ==
    SelectSeq(W.players, LAMBDA id : /\ id # playerId
                                     /\ Dist2(obj, W.heap[id]) <= stealRadius * stealRadius)

\* the other living players within the steal radius of obj, in registry order
competingPlayers(W, playerId, obj) ==
    SelectSeq(W.players, LAMBDA id : /\ id # playerId
                                     /\ W.heap[id].isAlive
                                     /\ Dist2(obj, W.heap[id]) <= stealRadius * stealRadius)

\* competingPlayers.reduce((closest, current) =>
\*     current.distance < closest.distance ? current : closest)
RECURSIVE reduceClosest(_, _, _, _)
reduceClosest(W, obj, ids, closest) ==
    IF ids = <<>> THEN closest
    ELSE reduceClosest(W, obj, Tail(ids),
                       IF Dist2(obj, W.heap[Head(ids)]) < Dist2(obj, W.heap[closest])
                       THEN Head(ids) ELSE closest)

closestCompetitor_first(W, obj, cs) == Head(cs)

closestCompetitor(W, obj, cs) == reduceClosest(W, obj, Tail(cs), Head(cs))

countType_portalIsRare(p, type) ==
    IF type = "discovery" THEN [p EXCEPT !.discoveries = @ + 1]
    ELSE IF type = "rare" \/ type = "ringPortal" THEN [p EXCEPT !.rareItems = @ + 1]
    ELSE IF type = "spaceCreature" THEN [p EXCEPT !.creatures = @ + 1]
    ELSE p

\* the per-type counters of a collector
countType(p, type) ==
    IF type = "discovery" THEN [p EXCEPT !.discoveries = @ + 1]
    ELSE IF type = "rare" THEN [p EXCEPT !.rareItems = @ + 1]
    ELSE IF type = "spaceCreature" THEN [p EXCEPT !.creatures = @ + 1]
    ELSE p

markCollected(obj, by, t) ==
    [obj EXCEPT !.available = FALSE, !.collectedBy = by, !.collectedAt = t]

steal_paysBoth(W, playerId, objectId, thief, t) ==
    LET obj == W.worldObjects[objectId]
        points == OBJECT_TYPES[obj.type].points
        W1 == [W EXCEPT
                 !.heap[thief] = countType(giveSpeedBoost(
                                     [addScore(@, points) EXCEPT !.resourcesStolen = @ + 1], t),
                                     obj.type),
                 !.worldObjects[objectId] = markCollected(@, thief, t)]
        W2 == [W1 EXCEPT !.heap[playerId] = addScore(@, points)]
        W3 == Emit(W2, Ev("resource_stolen", 0, thief))
    IN  [W3 EXCEPT !.ret = [success |-> FALSE, reason |-> "stolen", by |-> thief,
                            points |-> 0, competitorCount |-> 0]]

\* the branch "another player is closer - they steal it"
steal(W, playerId, objectId, thief, t) ==
    LET obj == W.worldObjects[objectId]
        points == OBJECT_TYPES[obj.type].points
        W1 == [W EXCEPT
                 !.heap[thief] = countType(giveSpeedBoost(
                                     [addScore(@, points) EXCEPT !.resourcesStolen = @ + 1], t),
                                     obj.type),
                 !.worldObjects[objectId] = markCollected(@, thief, t)]
        W2 == [W1 EXCEPT !.heap[playerId].resourcesLost = @ + 1]
        W3 == Emit(W2, Ev("resource_stolen", 0, thief))
    IN  [W3 EXCEPT !.ret = [success |-> FALSE, reason |-> "stolen", by |-> thief,
                            points |-> 0, competitorCount |-> 0]]

\* the branch "player successfully collects the resource"; `red` is the
\* random radiationReduction 25 + Math.random() * 15 drawn for a ringPortal
collect(W, playerId, objectId, nCompetitors, red, t) ==
    LET obj == W.worldObjects[objectId]
        points == OBJECT_TYPES[obj.type].points
        p1 == countType(giveSpeedBoost(addScore(W.heap[playerId], points), t), obj.type)
        p2 == IF obj.type = "ringPortal"
              THEN [p1 EXCEPT !.radiationLevel = Max(0, @ - red)]
              ELSE p1
        W1 == [W EXCEPT !.heap[playerId] = p2,
                        !.worldObjects[objectId] = markCollected(@, playerId, t)]
        W2 == Emit(W1, Ev("resource_collected", 0, playerId))
    IN  [W2 EXCEPT !.ret = [success |-> TRUE, reason |-> "collected", by |-> 0,
                            points |-> points, competitorCount |-> nCompetitors]]

Fail(W, reason) == [W EXCEPT !.ret = [NoResult EXCEPT !.reason = reason]]

notAvailable_takenTwice(W, playerId, objectId) ==
    \/ playerId \notin Range(W.players)
    \/ ~W.heap[playerId].isAlive
    \/ objectId \notin DOMAIN W.worldObjects

notAvailable_deadCollects(W, playerId, objectId) ==
    \/ playerId \notin Range(W.players)
    \/ objectId \notin DOMAIN W.worldObjects
    \/ ~W.worldObjects[objectId].available

\* !player || !player.isAlive || !obj || !obj.available
notAvailable(W, playerId, objectId) ==
    \/ playerId \notin Range(W.players)
    \/ ~W.heap[playerId].isAlive
    \/ objectId \notin DOMAIN W.worldObjects
    \/ ~W.worldObjects[objectId].available

tooFar_never(W, playerId, obj) == FALSE

tooFar_atRadius(W, playerId, obj) ==
    Dist2(obj, W.heap[playerId]) >= OBJECT_TYPES[obj.type].collectRadius * OBJECT_TYPES[obj.type].collectRadius

\* distance > collectRadius
tooFar(W, playerId, obj) ==
    Dist2(obj, W.heap[playerId]) > OBJECT_TYPES[obj.type].collectRadius * OBJECT_TYPES[obj.type].collectRadius

isCloser_never(W, obj, competitor, playerId) == FALSE

isCloser_orAsClose(W, obj, competitor, playerId) ==
    Dist2(obj, W.heap[competitor]) <= Dist2(obj, W.heap[playerId])

\* closestCompetitor.distance < distance
isCloser(W, obj, competitor, playerId) ==
    Dist2(obj, W.heap[competitor]) < Dist2(obj, W.heap[playerId])

handleResourceCollection(W, playerId, objectId, red, t) ==
    IF notAvailable(W, playerId, objectId)
    THEN Fail(W, "Object not available or player dead")
    ELSE LET obj == W.worldObjects[objectId]
             cs == competingPlayers(W, playerId, obj)
         IN  IF tooFar(W, playerId, obj) THEN Fail(W, "Too far away")
             ELSE IF cs # <<>> /\ isCloser(W, obj, closestCompetitor(W, obj, cs), playerId)
                  THEN steal(W, playerId, objectId, closestCompetitor(W, obj, cs), t)
                  ELSE collect(W, playerId, objectId, Len(cs), red, t)

----------------------------------------------------------------------------
(* Proximity battle engine (part_000)                                       *)

RECURSIVE insertByRadiation_ascending(_, _, _)
insertByRadiation_ascending(h, s, e) ==
    IF s = <<>> THEN <<e>>
    ELSE IF h[e].radiationLevel < h[Head(s)].radiationLevel THEN <<e>> \o s
    ELSE <<Head(s)>> \o insertByRadiation_ascending(h, Tail(s), e)

\* Array.prototype.sort with (a, b) => b.radiationLevel - a.radiationLevel:
\* descending, and stable
RECURSIVE insertByRadiation(_, _, _)
insertByRadiation(h, s, e) ==
    IF s = <<>> THEN <<e>>
    ELSE IF h[e].radiationLevel > h[Head(s)].radiationLevel THEN <<e>> \o s
    ELSE <<Head(s)>> \o insertByRadiation(h, Tail(s), e)

RECURSIVE sortByRadiation(_, _)
sortByRadiation(h, s) ==
    IF s = <<>> THEN <<>>
    ELSE insertByRadiation(h, sortByRadiation(h, SubSeq(s, 1, Len(s) - 1)), s[Len(s)])

\* ids.sort(): ascending order of the socket ids
RECURSIVE insertId(_, _)
insertId(s, e) ==
    IF s = <<>> THEN <<e>>
    ELSE IF e < Head(s) THEN <<e>> \o s
    ELSE <<Head(s)>> \o insertId(Tail(s), e)

RECURSIVE sortIds(_)
sortIds(s) == IF s = <<>> THEN <<>> ELSE insertId(sortIds(Tail(s)), Head(s))

\* nearbyEnemies.map(e => e.player.id).sort().join('-')
battleKey(members) == sortIds(members)

hasBattle_never(battles, key) == FALSE

hasBattle(battles, key) == \E i \in 1..Len(battles) : battles[i].key = key

nearbyEnemies_anyDistance(W, id) ==
    SelectSeq(W.players, LAMBDA o : o # id /\ W.heap[o].isAlive)

\* the living players other than id within the proximity-kill distance
nearbyEnemies(W, id) ==
    SelectSeq(W.players, LAMBDA o : /\ o # id
                                    /\ W.heap[o].isAlive
                                    /\ Dist2(W.heap[id], W.heap[o])
                                         <= proximityKillDistance * proximityKillDistance)

RECURSIVE emitEach(_, _, _)
emitEach(W, name, ids) ==
    IF ids = <<>> THEN W ELSE emitEach(Emit(W, Ev(name, Head(ids), Head(ids))), name, Tail(ids))

\* first loop of checkProximityBattles: B = [W, active], over the registry
RECURSIVE formBattles(_, _, _)
formBattles(B, ids, t) ==
    IF ids = <<>> THEN B
    ELSE LET id == Head(ids)
             W == B.W
             enemies == nearbyEnemies(W, id)
             members == sortByRadiation(W.heap, Append(enemies, id))
             key == battleKey(members)
             W1 == IF hasBattle(W.proximityBattles, key) THEN W
                   ELSE emitEach([W EXCEPT !.proximityBattles =
                                      Append(@, [key |-> key, startTime |-> t,
                                                 players |-> members,
                                                 highestRadiationPlayer |-> members[1]])],
                                 "proximity_battle_start", members)
         IN  IF W.heap[id].isAlive /\ enemies # <<>>
             THEN formBattles([W |-> W1, active |-> B.active \cup {key}], Tail(ids), t)
             ELSE formBattles(B, Tail(ids), t)

RECURSIVE awardKill_creditsTheDead(_, _, _)
awardKill_creditsTheDead(W, ids, victim) ==
    IF ids = <<>> THEN W
    ELSE LET id == Head(ids)
             W1 == IF id # victim
                   THEN [W EXCEPT !.heap[id] = addScore([@ EXCEPT !.killCount = @ + 1], killBonus)]
                   ELSE W
         IN  awardKill_creditsTheDead(W1, Tail(ids), victim)

RECURSIVE awardKill(_, _, _)
awardKill(W, ids, victim) ==
    IF ids = <<>> THEN W
    ELSE LET id == Head(ids)
             W1 == IF id # victim /\ W.heap[id].isAlive
                   THEN [W EXCEPT !.heap[id] = addScore([@ EXCEPT !.killCount = @ + 1], killBonus)]
                   ELSE W
         IN  awardKill(W1, Tail(ids), victim)

deleteBattle(W, key) ==
    [W EXCEPT !.proximityBattles = SelectSeq(@, LAMBDA b : b.key # key)]

\* second loop of checkProximityBattles, over the entries of the Map
RECURSIVE endBattles(_, _, _, _, _)
endBattles(W, battles, active, spawn, t) ==
    IF battles = <<>> THEN W
    ELSE LET b == Head(battles)
             victim == b.highestRadiationPlayer
             separated == deleteBattle(emitEach(W, "proximity_battle_end", b.players), b.key)
             killed == Emit(awardKill(triggerRadiationDeath(W, victim, spawn[victim], t),
                                      b.players, victim),
                            [ev |-> "proximity_kill", to |-> 0, who |-> victim,
                             battlePlayers |-> b.players])
             W1 == IF b.key \notin active THEN separated
                   ELSE IF t - b.startTime >= proximityKillTime
                        THEN deleteBattle(IF W.heap[victim].isAlive THEN killed ELSE W, b.key)
                        ELSE W
         IN  endBattles(W1, Tail(battles), active, spawn, t)

checkProximityBattles(W, spawn, t) ==
    LET B == formBattles([W |-> W, active |-> {}], W.players, t)
    IN  endBattles(B.W, B.W.proximityBattles, B.active, spawn, t)

----------------------------------------------------------------------------
(* Handlers and timers (part_000)                                           *)

Registered(id) == id \in Range(players)
SocketOpen(id) == id \in DOMAIN heap /\ heap[id].socket = "open"

\* io.on('connection'): a socket with a fresh id; `pos` is the random spawn
connection(id, pos) ==
    /\ variant = "pvp"
    /\ id \notin DOMAIN heap
    /\ LET W1 == [World EXCEPT !.heap = @ @@ (id :> Player(id, pos, now)),
                               !.players = Append(@, id)]
           W2 == Emit(W1, Ev("player_init", id, id))
           W3 == Emit(W2, Ev("world_sync", id, id))
       IN  Commit(Emit(W3, Ev("player_joined", 0, id)))
    /\ last' = Last("connection", id, <<>>, NoResult)
    /\ UNCHANGED <<now, intervals, variant>>

\* socket.on('player_update'): the game_state report sent back to the sender
\* reads the state without changing it and is left out
player_update(id, data, pos) ==
    /\ variant = "pvp"
    /\ SocketOpen(id)
    /\ Commit(IF Registered(id) THEN update(World, id, data, pos, now) ELSE World)
    /\ last' = Last("player_update", id, data, NoResult)
    /\ UNCHANGED <<now, intervals, variant>>

\* the callback of setTimeout(() => this.respawn(), this.respawnTime)
respawnTimer(i) ==
    /\ variant = "pvp"
    /\ i \in 1..Len(timers)
    /\ now >= timers[i].due
    /\ LET id == timers[i].player
           W1 == [World EXCEPT !.timers = SubSeq(@, 1, i - 1) \o SubSeq(@, i + 1, Len(@))]
       IN  /\ Commit(respawn(W1, id))
           /\ last' = Last("respawn", id, <<>>, NoResult)
    /\ UNCHANGED <<now, intervals, variant>>

RECURSIVE radiationLoop_irradiatesTheDead(_, _)
radiationLoop_irradiatesTheDead(W, ids) ==
    IF ids = <<>> THEN W
    ELSE LET id == Head(ids)
             p == W.heap[id]
             rl == Min(Pct(100), p.radiationLevel + radiationIncrement)
             W1 == [W EXCEPT !.heap[id].radiationLevel = rl]
             W2 == IF rl >= Pct(80) /\ rl < Pct(80) + radiationIncrement
                   THEN Emit(W1, Ev("radiation_warning_critical", id, id))
                   ELSE IF rl >= Pct(60) /\ rl < Pct(60) + radiationIncrement
                   THEN Emit(W1, Ev("radiation_warning_high", id, id))
                   ELSE W1
         IN  radiationLoop_irradiatesTheDead(W2, Tail(ids))

RECURSIVE radiationLoop_warnsOnLevel(_, _)
radiationLoop_warnsOnLevel(W, ids) ==
    IF ids = <<>> THEN W
    ELSE LET id == Head(ids)
             p == W.heap[id]
             rl == Min(Pct(100), p.radiationLevel + radiationIncrement)
             W1 == [W EXCEPT !.heap[id].radiationLevel = rl]
             W2 == IF rl >= Pct(80)
                   THEN Emit(W1, Ev("radiation_warning_critical", id, id))
                   ELSE IF rl >= Pct(60)
                   THEN Emit(W1, Ev("radiation_warning_high", id, id))
                   ELSE W1
         IN  radiationLoop_warnsOnLevel(IF p.isAlive THEN W2 ELSE W, Tail(ids))

\* radiation damage loop (setInterval, 2000 ms)
RECURSIVE radiationLoop(_, _)
radiationLoop(W, ids) ==
    IF ids = <<>> THEN W
    ELSE LET id == Head(ids)
             p == W.heap[id]
             rl == Min(Pct(100), p.radiationLevel + radiationIncrement)
             W1 == [W EXCEPT !.heap[id].radiationLevel = rl]
             W2 == IF rl >= Pct(80) /\ rl < Pct(80) + radiationIncrement
                   THEN Emit(W1, Ev("radiation_warning_critical", id, id))
                   ELSE IF rl >= Pct(60) /\ rl < Pct(60) + radiationIncrement
                   THEN Emit(W1, Ev("radiation_warning_high", id, id))
                   ELSE W1
         IN  radiationLoop(IF p.isAlive THEN W2 ELSE W, Tail(ids))

radiationTick ==
    /\ variant = "pvp"
    /\ now >= intervals.radiation
    /\ Commit(radiationLoop(World, players))
    /\ intervals' = [intervals EXCEPT !.radiation = now + radiationInterval]
    /\ last' = Last("radiationTick", 0, <<>>, NoResult)
    /\ UNCHANGED <<now, variant>>

\* socket.on('collect_resource'); the deferred broadcastWorldState only
\* reports the state and is left out
collect_resource(id, objectId, red) ==
    /\ variant = "pvp"
    /\ SocketOpen(id)
    /\ LET W == handleResourceCollection(World, id, objectId, red, now)
           answered == Emit(W, Ev("collection_result", id, id))
       IN  IF ~Registered(id) \/ ~heap[id].isAlive \/ objectId \notin DOMAIN worldObjects
           THEN Commit(World) /\ last' = Last("collect_resource", id, objectId, NoResult)
           ELSE /\ Commit(IF W.ret.success
                          THEN Emit(Emit(W, Ev("object_removed", 0, id)),
                                    Ev("collection_result", id, id))
                          ELSE IF W.ret.reason = "stolen" THEN answered
                          ELSE W)
                /\ last' = Last("collect_resource", id, objectId, W.ret)
    /\ UNCHANGED <<now, intervals, variant>>

\* socket.on('disconnect')
RECURSIVE leaveBattles(_, _, _)
leaveBattles(W, battles, id) ==
    IF battles = <<>> THEN W
    ELSE LET b == Head(battles)
             rest == SelectSeq(b.players, LAMBDA q : q # id)
             W1 == IF id \notin Range(b.players) THEN W
                   ELSE IF Len(rest) < 2
                        THEN deleteBattle(emitEach(W, "proximity_battle_end", rest), b.key)
                        ELSE [W EXCEPT !.proximityBattles =
                                 [i \in 1..Len(@) |-> IF @[i].key = b.key
                                                      THEN [@[i] EXCEPT !.players = rest]
                                                      ELSE @[i]]]
         IN  leaveBattles(W1, Tail(battles), id)

disconnect(id) ==
    /\ variant = "pvp"
    /\ SocketOpen(id)
    /\ LET W1 == leaveBattles(World, proximityBattles, id)
           W2 == Emit(W1, Ev("player_left", 0, id))
           W3 == [W2 EXCEPT !.players = Without(@, id)]
           W4 == IF Registered(id) THEN W3 ELSE World
       IN  Commit([W4 EXCEPT !.heap[id].socket = "closed"])
    /\ last' = Last("disconnect", id, <<>>, NoResult)
    /\ UNCHANGED <<now, intervals, variant>>

\* world management loop (setInterval, 5000 ms)
removeInactive(W, t) ==
    [W EXCEPT !.players = SelectSeq(@, LAMBDA id : ~(t - W.heap[id].lastUpdate > inactivityTimeout))]

respawnSweep(W, t) ==
    LET W1 == [W EXCEPT !.worldObjects = [i \in DOMAIN @ |-> checkRespawn(@[i], t)]]
        respawnCount == Cardinality({i \in DOMAIN W.worldObjects :
                                        checkRespawnReturns(W.worldObjects[i], t)})
    IN  IF respawnCount > 0 THEN Emit(W1, Ev("world_sync", 0, 0)) ELSE W1

worldLoop(W, spawn, t) ==
    LET W1 == removeInactive(respawnSweep(W, t), t)
    IN  IF Len(W1.players) > 1 THEN checkProximityBattles(W1, spawn, t) ELSE W1

worldTick(spawn) ==
    /\ variant = "pvp"
    /\ now >= intervals.world
    /\ Commit(worldLoop(World, spawn, now))
    /\ intervals' = [intervals EXCEPT !.world = now + worldInterval]
    /\ last' = Last("worldTick", 0, <<>>, NoResult)
    /\ UNCHANGED <<now, variant>>

\* socket.on('request_speed_boost'): a boost may be asked for within
\* boostRequestWindow ms of the last collection
boostRequestWindow == 5000

request_speed_boost(id, reason) ==
    /\ variant = "pvp"
    /\ SocketOpen(id)
    /\ Commit(IF /\ Registered(id) /\ heap[id].isAlive
                 /\ reason = "collection"
                 /\ now - heap[id].lastCollectionTime < boostRequestWindow
              THEN Emit([World EXCEPT !.heap[id] = giveSpeedBoost(@, now)],
                        Ev("speed_boost_granted", id, id))
              ELSE World)
    /\ last' = Last("request_speed_boost", id, reason, NoResult)
    /\ UNCHANGED <<now, intervals, variant>>

\* speed boost cleanup loop (setInterval, 1000 ms); speedMargin is the 0.1
\* above the base speed from which a multiplier counts as boosted
speedMargin == 100

RECURSIVE speedLoop(_, _, _)
speedLoop(W, ids, t) ==
    IF ids = <<>> THEN W
    ELSE LET id == Head(ids)
             p == W.heap[id]
             W1 == Emit([W EXCEPT !.heap[id] = updateSpeedMultiplier(p, t)],
                        Ev("speed_boost_ended", id, id))
         IN  speedLoop(IF /\ t > p.speedBoostEndTime
                          /\ p.currentSpeedMultiplier > baseSpeed + speedMargin
                       THEN W1 ELSE W,
                       Tail(ids), t)

speedTick ==
    /\ variant = "pvp"
    /\ now >= intervals.speed
    /\ Commit(speedLoop(World, players, now))
    /\ intervals' = [intervals EXCEPT !.speed = now + speedInterval]
    /\ last' = Last("speedTick", 0, <<>>, NoResult)
    /\ UNCHANGED <<now, variant>>

\* the order in which the runtime runs expired timers: the earlier expiry
\* first, and timers of the 5000 ms list that expire together in the order
\* they were armed
respawnIsNext(i) ==
    /\ i \in 1..Len(timers)
    /\ \A j \in 1..Len(timers) :
          timers[j].due > timers[i].due \/ (timers[j].due = timers[i].due /\ j >= i)
    /\ \/ timers[i].due < intervals.world
       \/ timers[i].due = intervals.world /\ timers[i].ahead

worldLoopIsNext == \A i \in 1..Len(timers) : ~respawnIsNext(i)

\* no timer of the model has expired
noTimerDue ==
    /\ now < intervals.world
    /\ \A i \in 1..Len(timers) : now < timers[i].due

\* the passage of time
AdvanceTime(d, horizon) ==
    /\ now + d <= StartTime + horizon
    /\ now' = now + d
    /\ out' = <<>>
    /\ last' = Last("time", 0, <<>>, NoResult)
    /\ UNCHANGED <<heap, players, worldObjects, proximityBattles, timers, intervals, variant>>

----------------------------------------------------------------------------
(* The peer-radiation variant (server.js)                                   *)

radiationRange == 150
deathRadiationBonus == 30
srv_deathPenalty == 50
\* radiationIncrease = 0.08 (percent)
radiationIncrease == (8 * RadScale) \div 100

\* Math.sqrt of a squared distance d2 <= radiationRange^2; the positions the
\* specifications draw from lie on one axis, so the root is a whole number
Sqrt(d2) == CHOOSE r \in 0..radiationRange : r * r = d2

\* `pick` is the random draw of getSpawnPosition: the index of the target among
\* Object.values(players), the offset cos(angle)*distance, (Math.random()-0.5)*100,
\* sin(angle)*distance from it, and the angle atan2(-dz, -dx) in milliradians
getSpawnPosition(W, pick) ==
    IF W.players = <<>> THEN [x |-> 0, y |-> 0, z |-> 0, rotation |-> 0]
    ELSE LET targetPlayer == W.heap[W.players[1 + (pick.target % Len(W.players))]]
         IN  [x |-> targetPlayer.x + pick.dx, y |-> targetPlayer.y + pick.dy,
              z |-> targetPlayer.z + pick.dz, rotation |-> pick.rotation]

srv_Player(W, id, pick, t) ==
    LET spawnPos == getSpawnPosition(W, pick) IN
    [ id |-> id, x |-> spawnPos.x, y |-> spawnPos.y, z |-> spawnPos.z,
      rotationX |-> 0, rotationY |-> spawnPos.rotation,
      radiationLevel |-> 0, score |-> 0,
      discoveries |-> 0, rareItems |-> 0, creatures |-> 0,
      lastUpdate |-> t,
      resourcesStolen |-> 0, resourcesLost |-> 0,
      kills |-> 0, deaths |-> 0, radiationFromPlayers |-> 0,
      socket |-> "open" ]

\* the sum the loop of updateRadiationFromPlayers builds
RECURSIVE radiationFromPlayers(_, _, _)
radiationFromPlayers(W, id, ids) ==
    IF ids = <<>> THEN 0
    ELSE LET d2 == Dist2(W.heap[Head(ids)], W.heap[id])
             part == IF Head(ids) # id /\ d2 <= radiationRange * radiationRange
                     THEN (radiationIncrease * (radiationRange - Sqrt(d2))) \div radiationRange
                     ELSE 0
         IN  part + radiationFromPlayers(W, id, Tail(ids))

updateRadiationFromPlayers(W, id) ==
    LET rfp == radiationFromPlayers(W, id, W.players)
    IN  [W EXCEPT !.heap[id] = [@ EXCEPT !.radiationFromPlayers = rfp,
                                         !.radiationLevel = Min(Pct(100), @ + rfp)]]

\* the loop of handleRadiationDeath: players within radiationRange * 1.5
\* (4 d2 <= 9 range^2) lose deathRadiationBonus and gain a kill
RECURSIVE cleanseNearby(_, _, _)
cleanseNearby(W, id, ids) ==
    IF ids = <<>> THEN W
    ELSE LET o == Head(ids)
             near == o # id /\ 4 * Dist2(W.heap[o], W.heap[id])
                                  <= 9 * radiationRange * radiationRange
             W1 == IF near
                   THEN [W EXCEPT !.heap[o] =
                           [@ EXCEPT !.radiationLevel = Max(0, @ - Pct(deathRadiationBonus)),
                                     !.kills = @ + 1]]
                   ELSE W
         IN  cleanseNearby(W1, id, Tail(ids))

srv_handleRadiationDeath_noFloor(W, id, pick) ==
    LET W1 == cleanseNearby([W EXCEPT !.heap[id].deaths = @ + 1], id, W.players)
        newSpawn == getSpawnPosition(W1, pick)
        W2 == [W1 EXCEPT !.heap[id] = [@ EXCEPT !.radiationLevel = 0,
                                                !.score = @ - srv_deathPenalty,
                                                !.x = newSpawn.x, !.y = newSpawn.y,
                                                !.z = newSpawn.z,
                                                !.rotationY = newSpawn.rotation]]
    IN  Emit(Emit(W2, Ev("player_death", 0, id)), Ev("player_respawn", id, id))

srv_handleRadiationDeath(W, id, pick) ==
    LET W1 == cleanseNearby([W EXCEPT !.heap[id].deaths = @ + 1], id, W.players)
        newSpawn == getSpawnPosition(W1, pick)
        W2 == [W1 EXCEPT !.heap[id] = [@ EXCEPT !.radiationLevel = 0,
                                                !.score = Max(0, @ - srv_deathPenalty),
                                                !.x = newSpawn.x, !.y = newSpawn.y,
                                                !.z = newSpawn.z,
                                                !.rotationY = newSpawn.rotation]]
    IN  Emit(Emit(W2, Ev("player_death", 0, id)), Ev("player_respawn", id, id))

srv_update(W, id, data, pick, t) ==
    LET p == W.heap[id]
        p1 == [p EXCEPT !.x = OrElse(data, "x", @),
                        !.y = OrElse(data, "y", @),
                        !.z = OrElse(data, "z", @),
                        !.rotationX = OrElse(data, "rotationX", @),
                        !.rotationY = OrElse(data, "rotationY", @),
                        !.radiationLevel = Min(Pct(100), OrElse(data, "radiationLevel", @)),
                        !.lastUpdate = t]
        W1 == updateRadiationFromPlayers([W EXCEPT !.heap[id] = p1], id)
    IN  IF W1.heap[id].radiationLevel >= Pct(100)
        THEN srv_handleRadiationDeath(W1, id, pick)
        ELSE W1

\* every other registered player within the steal radius, in registry order
srv_competingPlayers(W, playerId, obj) ==
    SelectSeq(W.players, LAMBDA id : /\ id # playerId
                                     /\ Dist2(obj, W.heap[id]) <= stealRadius * stealRadius)

srv_steal(W, playerId, objectId, thief, t) ==
    LET obj == W.worldObjects[objectId]
        points == OBJECT_TYPES[obj.type].points
        W1 == [W EXCEPT
                 !.heap[thief] = countType([addScore(@, points) EXCEPT !.resourcesStolen = @ + 1],
                                           obj.type),
                 !.worldObjects[objectId] = markCollected(@, thief, t)]
        W2 == [W1 EXCEPT !.heap[playerId].resourcesLost = @ + 1]
        W3 == Emit(W2, Ev("resource_stolen", 0, thief))
    IN  [W3 EXCEPT !.ret = [success |-> FALSE, reason |-> "stolen", by |-> thief,
                            points |-> 0, competitorCount |-> 0]]

srv_collect(W, playerId, objectId, nCompetitors, red, t) ==
    LET obj == W.worldObjects[objectId]
        points == OBJECT_TYPES[obj.type].points
        p1 == countType(addScore(W.heap[playerId], points), obj.type)
        p2 == IF obj.type = "ringPortal"
              THEN [p1 EXCEPT !.radiationLevel = Max(0, @ - red)]
              ELSE p1
        W1 == [W EXCEPT !.heap[playerId] = p2,
                        !.worldObjects[objectId] = markCollected(@, playerId, t)]
        W2 == Emit(W1, Ev("resource_collected", 0, playerId))
    IN  [W2 EXCEPT !.ret = [success |-> TRUE, reason |-> "collected", by |-> 0,
                            points |-> points, competitorCount |-> nCompetitors]]

srv_handleResourceCollection(W, playerId, objectId, red, t) ==
    IF \/ playerId \notin Range(W.players)
       \/ objectId \notin DOMAIN W.worldObjects
       \/ ~W.worldObjects[objectId].available
    THEN Fail(W, "Object not available")
    ELSE LET obj == W.worldObjects[objectId]
             distance2 == Dist2(obj, W.heap[playerId])
             collectRadius == OBJECT_TYPES[obj.type].collectRadius
             cs == srv_competingPlayers(W, playerId, obj)
         IN  IF distance2 > collectRadius * collectRadius THEN Fail(W, "Too far away")
             ELSE IF cs # <<>> /\ Dist2(obj, W.heap[closestCompetitor(W, obj, cs)]) < distance2
                  THEN srv_steal(W, playerId, objectId, closestCompetitor(W, obj, cs), t)
                  ELSE srv_collect(W, playerId, objectId, Len(cs), red, t)

\* io.on('connection') of server.js
srv_connection(id, pick) ==
    /\ variant = "srv"
    /\ id \notin DOMAIN heap
    /\ LET W1 == [World EXCEPT !.heap = @ @@ (id :> srv_Player(World, id, pick, now)),
                               !.players = Append(@, id)]
           W2 == Emit(W1, Ev("player_init", id, id))
           W3 == Emit(W2, Ev("world_sync", id, id))
       IN  Commit(Emit(W3, Ev("player_joined", 0, id)))
    /\ last' = Last("connection", id, <<>>, NoResult)
    /\ UNCHANGED <<now, intervals, variant>>

\* socket.on('player_update') of server.js; the game_state report is left out
srv_player_update(id, data, pick) ==
    /\ variant = "srv"
    /\ SocketOpen(id)
    /\ Commit(IF Registered(id) THEN srv_update(World, id, data, pick, now) ELSE World)
    /\ last' = Last("player_update", id, data, NoResult)
    /\ UNCHANGED <<now, intervals, variant>>

\* socket.on('collect_resource') of server.js
srv_collect_resource(id, objectId, red) ==
    /\ variant = "srv"
    /\ SocketOpen(id)
    /\ LET W == srv_handleResourceCollection(World, id, objectId, red, now)
       IN  /\ Commit(Emit(W, Ev("collection_result", id, id)))
           /\ last' = Last("collect_resource", id, objectId, W.ret)
    /\ UNCHANGED <<now, intervals, variant>>

----------------------------------------------------------------------------
(* World management loop of server.js: respawns, creature AI, purge         *)

creatureFleeDistance == 120
worldSize == 2500
worldHeight == 300
srv_worldInterval == 2000

\* The creature AI adds 2.0 or 1.5 (half of it vertically) to coordinates:
\* where it runs, coordinates count quarters of a world unit.
fleeScale == 4

flee_anyObject(W, obj) ==
    LET ids == W.players
        d2(i) == Dist2(W.heap[ids[i]], obj)
        closest == CHOOSE i \in 1..Len(ids) :
                      /\ \A j \in 1..Len(ids) : d2(i) <= d2(j)
                      /\ \A j \in 1..(i - 1) : d2(j) > d2(i)
        closestPlayer == W.heap[ids[closest]]
        length == CHOOSE r \in 0..(creatureFleeDistance * fleeScale) :
                     r * r <= d2(closest) /\ d2(closest) < (r + 1) * (r + 1)
        fleeSpeed == IF obj.type = "spaceCreature" THEN 2 * fleeScale
                     ELSE (3 * fleeScale) \div 2
        halfWorld == (worldSize * fleeScale) \div 2
        x == obj.x + ((obj.x - closestPlayer.x) * fleeSpeed) \div length
        y == obj.y + ((obj.y - closestPlayer.y) * fleeSpeed) \div (2 * length)
        z == obj.z + ((obj.z - closestPlayer.z) * fleeSpeed) \div length
    IN  IF /\ ids # <<>>
           /\ d2(closest) < (creatureFleeDistance * fleeScale) * (creatureFleeDistance * fleeScale)
           /\ d2(closest) > 0
        THEN [obj EXCEPT !.x = Max(-halfWorld, Min(halfWorld, x)),
                         !.z = Max(-halfWorld, Min(halfWorld, z)),
                         !.y = Max(-worldHeight * fleeScale, Min(worldHeight * fleeScale, y))]
        ELSE obj

\* the creature AI of one object: find the closest player (the first of the
\* closest, in registry order) and step away from it
flee(W, obj) ==
    IF (obj.type = "spaceCreature" \/ obj.type = "rare") /\ obj.available
    THEN flee_anyObject(W, obj)
    ELSE obj

srv_worldLoop(W, t) ==
    LET W1 == [W EXCEPT !.worldObjects = [i \in DOMAIN @ |-> flee(W, checkRespawn(@[i], t))]]
        respawnCount == Cardinality({i \in DOMAIN W.worldObjects :
                                        checkRespawnReturns(W.worldObjects[i], t)})
        W2 == IF respawnCount > 0 THEN Emit(W1, Ev("world_sync", 0, 0)) ELSE W1
    IN  removeInactive(W2, t)

srv_worldTick ==
    /\ variant = "srv"
    /\ now >= intervals.world
    /\ Commit(srv_worldLoop(World, now))
    /\ intervals' = [intervals EXCEPT !.world = now + srv_worldInterval]
    /\ last' = Last("worldTick", 0, <<>>, NoResult)
    /\ UNCHANGED <<now, variant>>

----------------------------------------------------------------------------

(* Initial state                                                            *)

InitWorld(v, layout) ==
    /\ now = StartTime
    /\ heap = <<>>
    /\ players = <<>>
    /\ worldObjects = generateWorld(layout)
    /\ proximityBattles = <<>>
    /\ timers = <<>>
    /\ intervals = [world |-> StartTime + (IF v = "srv" THEN srv_worldInterval ELSE worldInterval),
                    radiation |-> StartTime + radiationInterval,
                    speed |-> StartTime + speedInterval]
    /\ out = <<>>
    /\ last = Last("init", 0, <<>>, NoResult)
    /\ variant = v

Origin == [x |-> 0, y |-> 0, z |-> 0]
At(x, y, z) == [x |-> x, y |-> y, z |-> z]

----------------------------------------------------------------------------
(* SpecRad: radiation, death and respawn of players (part_000)              *)

RadIds == {1, 2}
RadSpawn == {At(10, 0, 0)}
RadLayout == <<[type |-> "discovery", x |-> 0, y |-> 0, z |-> 0]>>
RadData == {[radiationLevel |-> Pct(99)], [radiationLevel |-> Pct(103)],
            [radiationLevel |-> Pct(-5)], [x |-> 20]}
RadHorizon == 6000

InitRad == InitWorld("pvp", RadLayout)

NextRad ==
    \/ \E id \in RadIds, pos \in RadSpawn : connection(id, pos)
    \/ \E id \in RadIds, data \in RadData, pos \in RadSpawn : player_update(id, data, pos)
    \/ \E i \in 1..2 : respawnTimer(i)
    \/ radiationTick
    \/ AdvanceTime(2000, RadHorizon)

SpecRad == InitRad /\ [][NextRad]_vars

----------------------------------------------------------------------------
(* Spec: collection, theft and respawn of world objects (part_000)          *)

Ids == {1, 2}
Spawn == {At(10, 0, 0)}
Layout == <<[type |-> "discovery", x |-> 0, y |-> 0, z |-> 0]>>
Data == {[x |-> 20], [radiationLevel |-> Pct(103)]}
Steps == {29999, 30000, 30001}
Horizon == 30001
Reduction == {Pct(25)}

Init == InitWorld("pvp", Layout)

Next ==
    \/ \E id \in Ids, pos \in Spawn : connection(id, pos)
    \/ \E id \in Ids, data \in Data, pos \in Spawn : player_update(id, data, pos)
    \/ \E id \in Ids, o \in {1, 2}, red \in Reduction : collect_resource(id, o, red)
    \/ \E id \in Ids : disconnect(id)
    \/ \E spawn \in [DOMAIN heap -> Spawn] : worldTick(spawn)
    \/ \E i \in 1..2 : respawnTimer(i)
    \/ \E d \in Steps : AdvanceTime(d, Horizon)

Spec == Init /\ [][Next]_vars

----------------------------------------------------------------------------
(* SpecDeath: a scoring player dies of radiation, in either variant         *)

DeathLayout == <<[type |-> "rare", x |-> 0, y |-> 0, z |-> 0],
                 [type |-> "discovery", x |-> 0, y |-> 0, z |-> 0]>>
DeathData == {[radiationLevel |-> Pct(99)], [radiationLevel |-> Pct(103)],
              [x |-> 60, radiationLevel |-> Pct(99)]}
DeathPicks == {[target |-> 0, dx |-> -200, dy |-> 0, dz |-> 0, rotation |-> 0],
               [target |-> 1, dx |-> 200, dy |-> 0, dz |-> 0, rotation |-> 3142]}

InitDeath == \E v \in {"pvp", "srv"} : InitWorld(v, DeathLayout)

NextDeath ==
    \/ \E id \in Ids, pos \in Spawn : connection(id, pos)
    \/ \E id \in Ids, data \in DeathData, pos \in Spawn : player_update(id, data, pos)
    \/ \E id \in Ids, o \in 1..2, red \in Reduction : collect_resource(id, o, red)
    \/ \E id \in Ids, pick \in DeathPicks : srv_connection(id, pick)
    \/ \E id \in Ids, data \in DeathData, pick \in DeathPicks :
          /\ id \in DOMAIN heap /\ variant = "srv" /\ heap[id].deaths < MaxDeaths
          /\ srv_player_update(id, data, pick)
    \/ \E id \in Ids, o \in 1..2, red \in Reduction : srv_collect_resource(id, o, red)

SpecDeath == InitDeath /\ [][NextDeath]_vars

----------------------------------------------------------------------------
(* SpecCollect: three players contend for one discovery (part_000)          *)

CollectIds == {1, 2, 3}
CollectData == {[x |-> 30], [x |-> 31], [x |-> 100], [x |-> 101],
                [radiationLevel |-> Pct(103)]}

InitCollect == InitWorld("pvp", Layout)

NextCollect ==
    \/ \E id \in CollectIds, pos \in Spawn : connection(id, pos)
    \/ \E id \in CollectIds, data \in CollectData, pos \in Spawn : player_update(id, data, pos)
    \/ \E id \in CollectIds, red \in Reduction : collect_resource(id, 1, red)

SpecCollect == InitCollect /\ [][NextCollect]_vars

----------------------------------------------------------------------------
(* SpecTypes: two players and one object of any type (part_000)             *)

CollectTypes == {"discovery", "exploding", "rare", "spaceCreature", "ringPortal"}

InitTypes ==
    \E type \in CollectTypes : InitWorld("pvp", <<[type |-> type, x |-> 0, y |-> 0, z |-> 0]>>)

NextTypes ==
    \/ \E id \in Ids, pos \in Spawn : connection(id, pos)
    \/ \E id \in Ids, data \in CollectData, pos \in Spawn : player_update(id, data, pos)
    \/ \E id \in Ids, red \in Reduction : collect_resource(id, 1, red)

SpecTypes == InitTypes /\ [][NextTypes]_vars

----------------------------------------------------------------------------
(* SpecPortal: a ringPortal is collected at any radiation, in either variant *)

PortalLayout == <<[type |-> "ringPortal", x |-> 0, y |-> 0, z |-> 0]>>
PortalData == {[radiationLevel |-> Pct(40)], [radiationLevel |-> Pct(10)],
               [radiationLevel |-> Pct(-5)]}
\* 25 + Math.random() * 15 lies in [25, 40)
PortalReduction == {Pct(25), Pct(32), Pct(40) - 1}

InitPortal == \E v \in {"pvp", "srv"} : InitWorld(v, PortalLayout)

NextPortal ==
    \/ \E id \in Ids, pos \in Spawn : connection(id, pos)
    \/ \E id \in Ids, data \in PortalData, pos \in Spawn : player_update(id, data, pos)
    \/ \E id \in Ids, red \in PortalReduction : collect_resource(id, 1, red)
    \/ \E id \in Ids, pick \in DeathPicks : srv_connection(id, pick)
    \/ \E id \in Ids, data \in PortalData, pick \in DeathPicks : srv_player_update(id, data, pick)
    \/ \E id \in Ids, red \in PortalReduction : srv_collect_resource(id, 1, red)

SpecPortal == InitPortal /\ [][NextPortal]_vars

----------------------------------------------------------------------------
(* SpecBattle: three players, the world loop and the respawn timers, run on *)
(* time and in the order of the runtime (part_000)                          *)

BattleIds == {1, 2, 3}
BattleSpawn == {At(-30, 0, 0), At(0, 0, 0), At(30, 0, 0)}
BattleData == {[radiationLevel |-> Pct(50)], [radiationLevel |-> Pct(103)]}
BattleHorizon == 20000
JoinWindow == 5000     \* players join in the first JoinWindow ms, and report at the start

InitBattle == InitWorld("pvp", Layout)

NextBattle ==
    \/ \E id \in BattleIds, pos \in BattleSpawn :
          now <= StartTime + JoinWindow /\ connection(id, pos)
    \/ \E id \in BattleIds, data \in BattleData, pos \in BattleSpawn :
          now = StartTime /\ player_update(id, data, pos)
    \/ \E pos \in BattleSpawn :
          worldLoopIsNext /\ worldTick([id \in DOMAIN heap |-> pos])
    \/ \E i \in 1..3 : respawnIsNext(i) /\ respawnTimer(i)
    \/ noTimerDue /\ AdvanceTime(worldInterval, BattleHorizon)

SpecBattle == InitBattle /\ [][NextBattle]_vars

----------------------------------------------------------------------------
(* Properties                                                               *)

Emitted(name, who) == \E i \in 1..Len(out) : out[i].ev = name /\ out[i].who = who
CountEmitted(evs, name, who) ==
    Cardinality({i \in 1..Len(evs) : evs[i].ev = name /\ evs[i].who = who})
CountTimers(ts, id) == Cardinality({i \in 1..Len(ts) : ts[i].player = id})
Unavailable == "Object not available or player dead"

\* C1: every world object is available exactly when it has neither a
\* collector nor a collection timestamp.
C1_AvailableIffUncollected ==
    \A o \in DOMAIN worldObjects :
        worldObjects[o].available <=>
            (worldObjects[o].collectedBy = Null /\ worldObjects[o].collectedAt = Null)

\* an object that was collected has been returned to available by a respawn check
C1_Witness ==
    /\ last.op = "worldTick"
    /\ Emitted("world_sync", 0)
    /\ worldObjects[1].available
    /\ \E id \in DOMAIN heap : heap[id].score > 0

\* C2: a collect attempt on an object that is already collected fails as
\* unavailable and changes no player and no object; an attempt that changes
\* anything found the object available and leaves it collected, so between
\* two respawns at most one attempt collects it.
C2_AtMostOneCollects ==
    [][\A o \in DOMAIN worldObjects :
         (last'.op = "collect_resource" /\ last'.arg = o) =>
            /\ ~worldObjects[o].available =>
                  /\ heap' = heap /\ worldObjects' = worldObjects
                  /\ ~last'.result.success
                  /\ (Registered(last'.id) /\ heap[last'.id].isAlive)
                        => last'.result.reason = Unavailable
            /\ (heap' # heap \/ worldObjects' # worldObjects) =>
                  /\ worldObjects[o].available /\ ~worldObjects'[o].available
                  /\ \A q \in DOMAIN worldObjects : q # o => worldObjects'[q] = worldObjects[q]
      ]_vars

\* a living player in range asked for an object another player holds
C2_Witness ==
    /\ last.op = "collect_resource"
    /\ last.result.reason = Unavailable
    /\ last.arg \in DOMAIN worldObjects
    /\ ~worldObjects[last.arg].available
    /\ worldObjects[last.arg].collectedBy # last.id
    /\ heap[last.id].isAlive

\* C3: a collected object keeps its collection time T = the time of the
\* collection while it is unavailable, and no step makes it available at a
\* time earlier than T + respawnTime of its type.
C3_NoEarlyRespawn ==
    [][\A o \in DOMAIN worldObjects :
         /\ (worldObjects[o].available /\ ~worldObjects'[o].available)
               => worldObjects'[o].collectedAt = now
         /\ (~worldObjects[o].available /\ ~worldObjects'[o].available)
               => worldObjects'[o].collectedAt = worldObjects[o].collectedAt
         /\ (~worldObjects[o].available /\ worldObjects'[o].available)
               => now' >= worldObjects[o].collectedAt
                            + OBJECT_TYPES[worldObjects[o].type].respawnTime
      ]_vars

\* a respawn check has returned an object collected at StartTime to available
C3_Witness ==
    /\ last.op = "worldTick"
    /\ Emitted("world_sync", 0)
    /\ worldObjects[1].available
    /\ now = StartTime + OBJECT_TYPES[worldObjects[1].type].respawnTime + 1

\* C4 as claimed: a respawn check at a time now >= T + respawnTime, the time
\* T + respawnTime itself included, makes the object available.
C4_RespawnAtDeadline ==
    [][\A o \in DOMAIN worldObjects :
         (/\ last'.op = "worldTick"
          /\ ~worldObjects[o].available
          /\ now >= worldObjects[o].collectedAt + OBJECT_TYPES[worldObjects[o].type].respawnTime)
            => worldObjects'[o].available
      ]_vars

\* C4, amended: a respawn check makes a collected object available, with
\* collector and timestamp cleared, and checkRespawn returns true, exactly
\* when now > T + respawnTime; a check at now <= T + respawnTime, and a check
\* of an available object, change nothing and return false.
C4_RespawnAfterDeadline ==
    [][\A o \in DOMAIN worldObjects :
         last'.op = "worldTick" =>
            LET obj == worldObjects[o]
                due == obj.collectedAt + OBJECT_TYPES[obj.type].respawnTime
            IN  /\ (~obj.available /\ now > due) =>
                      /\ worldObjects'[o].available
                      /\ worldObjects'[o].collectedBy = Null
                      /\ worldObjects'[o].collectedAt = Null
                      /\ checkRespawnReturns(obj, now)
                      /\ Emitted("world_sync", 0)'
                /\ (obj.available \/ now <= due) =>
                      /\ worldObjects'[o] = obj
                      /\ ~checkRespawnReturns(obj, now)
      ]_vars

\* a respawn check ran at exactly T + respawnTime and left the object collected
C4_Witness ==
    /\ last.op = "worldTick"
    /\ \E o \in DOMAIN worldObjects :
          /\ ~worldObjects[o].available
          /\ now = worldObjects[o].collectedAt + OBJECT_TYPES[worldObjects[o].type].respawnTime

\* C5 as claimed: every player's radiationLevel is within 0..100 percent.
C5_RadiationInRange ==
    \A id \in DOMAIN heap :
        heap[id].radiationLevel >= 0 /\ heap[id].radiationLevel <= Pct(100)

\* C6 as claimed: no registered player is alive with radiationLevel >= 100.
C6_NoLivingPlayerAtThreshold ==
    \A id \in Range(players) :
        heap[id].isAlive => heap[id].radiationLevel < Pct(radiationKillThreshold)

\* C7: triggerRadiationDeath on a dead player changes nothing; the step in
\* which a living player dies raises its deathCount by exactly 1, broadcasts
\* one death and schedules one respawn; and while a player stays dead its
\* deathCount and position do not change, no death is broadcast for it and
\* no respawn is scheduled for it.
C7_DeathIdempotent ==
    [][\A id \in DOMAIN heap :
         /\ ~heap[id].isAlive =>
               \A pos \in {Origin, At(10, 0, 0)} :
                   triggerRadiationDeath(World, id, pos, now) = World
         /\ (id \in DOMAIN heap' /\ heap[id].isAlive /\ ~heap'[id].isAlive) =>
               /\ heap'[id].deathCount = heap[id].deathCount + 1
               /\ CountEmitted(out', "player_death", id) = 1
               /\ CountTimers(timers', id) = CountTimers(timers, id) + 1
         /\ (~heap[id].isAlive /\ ~heap'[id].isAlive) =>
               /\ heap'[id].deathCount = heap[id].deathCount
               /\ heap'[id].x = heap[id].x /\ heap'[id].y = heap[id].y /\ heap'[id].z = heap[id].z
               /\ CountEmitted(out', "player_death", id) = 0
               /\ CountTimers(timers', id) = CountTimers(timers, id)
      ]_vars

\* a player has just died and a second fatal update has then reached it
C7_Witness ==
    /\ last.op = "player_update"
    /\ "radiationLevel" \in DOMAIN last.arg
    /\ last.arg.radiationLevel >= Pct(radiationKillThreshold)
    /\ ~heap[last.id].isAlive
    /\ heap[last.id].deathCount = 1
    /\ out = <<>>

Alive(id) == variant = "srv" \/ heap[id].isAlive
Deaths(p) == IF variant = "srv" THEN p.deaths ELSE p.deathCount
FatalUpdateFrom99(id) ==
    /\ last'.op = "player_update" /\ last'.id = id
    /\ Registered(id) /\ Alive(id)
    /\ heap[id].radiationLevel = Pct(99)
    /\ "radiationLevel" \in DOMAIN last'.arg
    /\ last'.arg.radiationLevel > Pct(100)

\* C8 as claimed: an update that reports more than 100 to a living player at
\* radiation 99 stores no more than 100, is one death of that player, and
\* lowers the player's score by the death penalty, not below 0.
C8_DeathCostsScore ==
    [][\A id \in DOMAIN heap :
         FatalUpdateFrom99(id) =>
            /\ heap'[id].radiationLevel <= Pct(100)
            /\ Deaths(heap'[id]) = Deaths(heap[id]) + 1
            /\ CountEmitted(out', "player_death", id) = 1
            /\ heap'[id].score = Max(0, heap[id].score - srv_deathPenalty)
      ]_vars

\* C8, amended: such an update stores no more than 100 (the death resets the
\* level to 0) and is exactly one death of that player; in server.js the
\* score drops by 50, not below 0; in part_000 the player becomes not alive
\* and the score is unchanged.
C8_DeathOnceAndPenaltyPerVariant ==
    [][\A id \in DOMAIN heap :
         FatalUpdateFrom99(id) =>
            /\ heap'[id].radiationLevel = 0
            /\ Deaths(heap'[id]) = Deaths(heap[id]) + 1
            /\ CountEmitted(out', "player_death", id) = 1
            /\ variant = "srv" => heap'[id].score = Max(0, heap[id].score - srv_deathPenalty)
            /\ variant = "pvp" => ~heap'[id].isAlive /\ heap'[id].score = heap[id].score
      ]_vars

\* a server.js player that had collected 60 points has died of a reported
\* radiation above 100 and keeps 10
C8_Witness ==
    /\ variant = "srv"
    /\ last.op = "player_update"
    /\ last.arg = [radiationLevel |-> Pct(103)]
    /\ Emitted("player_death", last.id)
    /\ heap[last.id].deaths = 1
    /\ heap[last.id].rareItems = 1 /\ heap[last.id].discoveries = 1
    /\ heap[last.id].score = 10

\* C9: a player_update for a player that is not alive changes nothing of
\* that player (position, rotation, radiationLevel, lastUpdate, speed
\* multiplier) and nothing else of the world.
C9_DeadIgnoreUpdates ==
    [][\A id \in DOMAIN heap :
         (last'.op = "player_update" /\ last'.id = id /\ ~heap[id].isAlive) =>
            /\ heap' = heap
            /\ UNCHANGED <<players, worldObjects, proximityBattles, timers>>
      ]_vars

\* a registered dead player was sent a position other than its own
C9_Witness ==
    /\ last.op = "player_update"
    /\ Registered(last.id)
    /\ ~heap[last.id].isAlive
    /\ "x" \in DOMAIN last.arg
    /\ last.arg.x # heap[last.id].x

\* C10: handleResourceCollection fails as unavailable and returns the world
\* as it was - every player and every object - when the object id does not
\* exist, the object is collected, or the acting id is not registered or
\* not alive.
C10_UnavailableChangesNothing ==
    \A id \in Ids \cup DOMAIN heap, o \in DOMAIN worldObjects \cup {Len(worldObjects) + 1} :
        (\/ o \notin DOMAIN worldObjects
         \/ ~worldObjects[o].available
         \/ id \notin Range(players)
         \/ ~heap[id].isAlive)
           => \A red \in Reduction :
                 handleResourceCollection(World, id, o, red, now) = Fail(World, Unavailable)

\* a registered dead player asked for an object that is available and in range
C10_Witness ==
    /\ last.op = "collect_resource"
    /\ Registered(last.id)
    /\ ~heap[last.id].isAlive
    /\ last.arg \in DOMAIN worldObjects
    /\ worldObjects[last.arg].available
    /\ out = <<>>
    /\ ~last.result.success

----------------------------------------------------------------------------
(* Properties of the contention resolver                                    *)

\* the collect attempt just handled was made by a registered living player
\* for an object that was available
AttemptOn(id, o) ==
    /\ last'.op = "collect_resource" /\ last'.id = id /\ last'.arg = o
    /\ o \in DOMAIN worldObjects
    /\ Registered(id) /\ heap[id].isAlive
    /\ worldObjects[o].available

Radius2(obj) == OBJECT_TYPES[obj.type].collectRadius * OBJECT_TYPES[obj.type].collectRadius
InRange(id, o) == Dist2(worldObjects[o], heap[id]) <= Radius2(worldObjects[o])

\* the living registered players other than id within the steal radius of o
Competitors(id, o) ==
    {c \in Range(players) \ {id} :
        heap[c].isAlive /\ Dist2(worldObjects[o], heap[c]) <= stealRadius * stealRadius}

\* C11: an attempt of a living player on an available object is answered
\* "Too far away", with every player and object left as it was, exactly when
\* the distance is strictly greater than the collect radius of the type.
C11_TooFarIffBeyondRadius ==
    [][\A id \in DOMAIN heap, o \in DOMAIN worldObjects :
         AttemptOn(id, o) =>
            /\ last'.result.reason = "Too far away" <=> ~InRange(id, o)
            /\ ~InRange(id, o) =>
                  /\ ~last'.result.success
                  /\ heap' = heap /\ worldObjects' = worldObjects /\ players' = players
      ]_vars

\* a collector just beyond the radius was refused while a competitor stood
\* inside it, and the object is still available
C11_Witness ==
    /\ last.op = "collect_resource"
    /\ last.result.reason = "Too far away"
    /\ worldObjects[last.arg].available
    /\ Dist2(worldObjects[last.arg], heap[last.id]) = Radius2(worldObjects[last.arg]) + 61
    /\ \E c \in Range(players) \ {last.id} :
          heap[c].isAlive /\ InRange(c, last.arg)

\* the competitors strictly closer to the object than the collector
Closer(id, o) ==
    {c \in Competitors(id, o) :
        Dist2(worldObjects[o], heap[c]) < Dist2(worldObjects[o], heap[id])}

Points(o) == OBJECT_TYPES[worldObjects[o].type].points

\* C12: when some competitor is strictly closer than an in-range collector,
\* a competitor at the smallest distance takes the object: it alone gains the
\* points and a theft credit and gets the speed boost, the collector gains a
\* loss credit and no points, the object is collected by that competitor and
\* the collector is answered "stolen".
C12_ClosestCompetitorSteals ==
    [][\A id \in DOMAIN heap, o \in DOMAIN worldObjects :
         AttemptOn(id, o) /\ InRange(id, o) /\ Closer(id, o) # {} =>
            \E w \in Closer(id, o) :
               /\ \A c \in Competitors(id, o) :
                     Dist2(worldObjects[o], heap[w]) <= Dist2(worldObjects[o], heap[c])
               /\ heap'[w].score = heap[w].score + Points(o)
               /\ heap'[w].resourcesStolen = heap[w].resourcesStolen + 1
               /\ heap'[w].speedBoostEndTime = now + boostDuration
               /\ \A p \in DOMAIN heap \ {w} :
                     /\ heap'[p].score = heap[p].score
                     /\ heap'[p].resourcesStolen = heap[p].resourcesStolen
                     /\ heap'[p].speedBoostEndTime = heap[p].speedBoostEndTime
               /\ heap'[id].resourcesLost = heap[id].resourcesLost + 1
               /\ \A p \in DOMAIN heap \ {id} : heap'[p].resourcesLost = heap[p].resourcesLost
               /\ ~worldObjects'[o].available
               /\ worldObjects'[o].collectedBy = w
               /\ ~last'.result.success
               /\ last'.result.reason = "stolen"
               /\ last'.result.by = w
      ]_vars

\* the collector stood at the radius, the thief closer, and a third living
\* player, registered before the thief, farther away inside the steal radius
C12_Witness ==
    /\ last.op = "collect_resource"
    /\ last.result.reason = "stolen"
    /\ worldObjects[last.arg].collectedBy = last.result.by
    /\ heap[last.id].resourcesLost = 1
    /\ heap[last.result.by].resourcesStolen = 1
    /\ \E i, j \in 1..Len(players) :
          /\ i < j
          /\ players[j] = last.result.by
          /\ players[i] # last.id
          /\ heap[players[i]].isAlive
          /\ Dist2(worldObjects[last.arg], heap[players[i]]) = stealRadius * stealRadius
          /\ Dist2(worldObjects[last.arg], heap[last.id]) = Radius2(worldObjects[last.arg])

\* C13: when there are competitors and none is strictly closer than the
\* in-range collector - the closest is exactly as far, or farther - the
\* collector takes the object and its points, and nobody's theft or loss
\* credits change.
C13_TieGoesToCollector ==
    [][\A id \in DOMAIN heap, o \in DOMAIN worldObjects :
         AttemptOn(id, o) /\ InRange(id, o) /\ Competitors(id, o) # {} /\ Closer(id, o) = {} =>
            /\ last'.result.success
            /\ ~worldObjects'[o].available
            /\ worldObjects'[o].collectedBy = id
            /\ heap'[id].score = heap[id].score + Points(o)
            /\ \A p \in DOMAIN heap :
                  /\ heap'[p].resourcesStolen = heap[p].resourcesStolen
                  /\ heap'[p].resourcesLost = heap[p].resourcesLost
      ]_vars

\* the collector has the object although a living competitor stands exactly
\* as far from it
C13_Witness ==
    /\ last.op = "collect_resource"
    /\ last.result.success
    /\ worldObjects[last.arg].collectedBy = last.id
    /\ \E c \in Range(players) \ {last.id} :
          /\ heap[c].isAlive
          /\ Dist2(worldObjects[last.arg], heap[c]) = Dist2(worldObjects[last.arg], heap[last.id])
    /\ \A p \in DOMAIN heap : heap[p].resourcesStolen = 0 /\ heap[p].resourcesLost = 0

\* C14: the competitors of an attempt are the living registered players
\* other than the collector within the steal radius of the object: only one
\* of them can take the object by theft, and competitorCount counts them and
\* nobody else.
C14_CompetitorsAliveAndNear ==
    [][\A id \in DOMAIN heap, o \in DOMAIN worldObjects :
         AttemptOn(id, o) /\ InRange(id, o) =>
            /\ last'.result.reason = "stolen" =>
                  /\ last'.result.by \in Competitors(id, o)
                  /\ worldObjects'[o].collectedBy \in Competitors(id, o)
            /\ last'.result.success =>
                  last'.result.competitorCount = Cardinality(Competitors(id, o))
            /\ \A p \in DOMAIN heap \ (Competitors(id, o) \cup {id}) :
                  heap'[p] = heap[p]
      ]_vars

\* the collector at the radius has the object and counted no competitor,
\* with a dead player nearer to the object and a living one just outside the
\* steal radius
C14_Witness ==
    /\ last.op = "collect_resource"
    /\ last.result.success
    /\ last.result.competitorCount = 0
    /\ worldObjects[last.arg].collectedBy = last.id
    /\ Dist2(worldObjects[last.arg], heap[last.id]) = Radius2(worldObjects[last.arg])
    /\ \E d, f \in Range(players) \ {last.id} :
          /\ ~heap[d].isAlive
          /\ Dist2(worldObjects[last.arg], heap[d]) < Radius2(worldObjects[last.arg])
          /\ heap[f].isAlive
          /\ Dist2(worldObjects[last.arg], heap[f]) = stealRadius * stealRadius + 201

\* the category counter a type feeds, if any
Bump(p, type, field) ==
    p[field] + (IF \/ type = "discovery" /\ field = "discoveries"
                   \/ type = "rare" /\ field = "rareItems"
                   \/ type = "spaceCreature" /\ field = "creatures"
                THEN 1 ELSE 0)

\* C15: when no competitor is strictly closer than the in-range collector,
\* the collector gains exactly the points of the type and the speed boost,
\* exactly the category counter of the type rises by one (none for exploding
\* and ringPortal), the object is collected by the collector, and no other
\* player changes.
C15_CollectorIsPaid ==
    [][\A id \in DOMAIN heap, o \in DOMAIN worldObjects :
         AttemptOn(id, o) /\ InRange(id, o) /\ Closer(id, o) = {} =>
            /\ last'.result.success
            /\ last'.result.points = Points(o)
            /\ heap'[id].score = heap[id].score + Points(o)
            /\ heap'[id].speedBoostEndTime = now + boostDuration
            /\ \A f \in {"discoveries", "rareItems", "creatures"} :
                  heap'[id][f] = Bump(heap[id], worldObjects[o].type, f)
            /\ ~worldObjects'[o].available
            /\ worldObjects'[o].collectedBy = id
            /\ worldObjects'[o].collectedAt = now
            /\ \A p \in DOMAIN heap \ {id} : heap'[p] = heap[p]
      ]_vars

\* a ringPortal was collected next to another player: 5 points, no category
\* counter, and the other player has nothing
C15_Witness ==
    /\ last.op = "collect_resource"
    /\ last.result.success
    /\ worldObjects[last.arg].type = "ringPortal"
    /\ worldObjects[last.arg].collectedBy = last.id
    /\ heap[last.id].score = 5
    /\ heap[last.id].discoveries = 0 /\ heap[last.id].rareItems = 0 /\ heap[last.id].creatures = 0
    /\ heap[last.id].speedBoostEndTime = now + boostDuration
    /\ \E p \in Range(players) \ {last.id} : heap[p].isAlive /\ heap[p].score = 0

\* the collect attempt just handled gave a ringPortal to its collector
PortalTaken(id, o) ==
    /\ last'.op = "collect_resource" /\ last'.id = id /\ last'.arg = o
    /\ o \in DOMAIN worldObjects
    /\ worldObjects[o].type = "ringPortal"
    /\ last'.result.success

\* C16: collecting a ringPortal takes the collector's radiation from old to
\* max(0, old - r) for some r between 25 and 40; from 40 the result lies in
\* [0, 15]; the result is never negative and never above the level before.
C16_PortalLowersRadiation ==
    [][\A id \in DOMAIN heap, o \in DOMAIN worldObjects :
         PortalTaken(id, o) =>
            /\ IF heap'[id].radiationLevel = 0
               THEN heap[id].radiationLevel <= Pct(40)
               ELSE /\ heap[id].radiationLevel - heap'[id].radiationLevel >= Pct(25)
                    /\ heap[id].radiationLevel - heap'[id].radiationLevel <= Pct(40)
            /\ heap[id].radiationLevel = Pct(40) =>
                  heap'[id].radiationLevel \in 0..Pct(15)
            /\ heap'[id].radiationLevel >= 0
            /\ heap'[id].radiationLevel <= heap[id].radiationLevel
      ]_vars

\* the collection_result events sent to the connection id
ResultsTo(evs, id) ==
    Cardinality({i \in 1..Len(evs) : evs[i].ev = "collection_result" /\ evs[i].to = id})

\* C17: every collect attempt received from a connection is answered with
\* exactly one collection_result sent to that connection, whatever the outcome.
C17_EveryAttemptAnswered ==
    [][\A id \in DOMAIN heap :
         last'.op = "collect_resource" /\ last'.id = id => ResultsTo(out', id) = 1
      ]_vars

----------------------------------------------------------------------------
(* Properties of the proximity battle engine                                *)

Near(a, b) == Dist2(heap[a], heap[b]) <= proximityKillDistance * proximityKillDistance

\* the world loop has just run with more than one registered player, so that
\* it called checkProximityBattles
BattlePass == last.op = "worldTick" /\ Len(players) > 1

\* C18: a battle pass that finds no battle and three living players pairwise
\* within the proximity-kill distance creates exactly one battle, keyed by
\* the sorted ids of the three, whose designated victim is a member with a
\* radiation level at formation not below that of any other member.
C18_ThreeFormOneBattle ==
    [][(/\ BattlePass'
        /\ proximityBattles = <<>>
        /\ Len(players') = 3
        /\ \A a, b \in Range(players') : heap[a].isAlive /\ Near(a, b))
         => /\ Len(proximityBattles') = 1
            /\ proximityBattles'[1].key = sortIds(players')
            /\ Range(proximityBattles'[1].players) = Range(players')
            /\ Len(proximityBattles'[1].players) = 3
            /\ proximityBattles'[1].startTime = now
            /\ proximityBattles'[1].highestRadiationPlayer \in Range(players')
            /\ \A m \in Range(players') :
                  heap[proximityBattles'[1].highestRadiationPlayer].radiationLevel
                     >= heap[m].radiationLevel
      ]_vars

\* one battle of three has just been formed; its victim is the last player
\* of the registry, the only one with radiation
C18_Witness ==
    /\ BattlePass
    /\ Len(players) = 3
    /\ Len(proximityBattles) = 1
    /\ proximityBattles[1].startTime = now
    /\ proximityBattles[1].key = <<1, 2, 3>>
    /\ proximityBattles[1].highestRadiationPlayer = players[3]
    /\ heap[players[3]].radiationLevel = Pct(50)
    /\ heap[players[1]].radiationLevel = 0 /\ heap[players[2]].radiationLevel = 0

\* C19: after every battle pass, the members of every battle in the map are
\* alive and pairwise within the proximity-kill distance.
C19_BattlesAreMutual ==
    BattlePass =>
       \A i \in 1..Len(proximityBattles) :
          \A a, b \in Range(proximityBattles[i].players) :
             heap[a].isAlive /\ heap[b].isAlive /\ Near(a, b)

\* the victim of the battle b has died after b was formed and before its
\* countdown elapsed
VictimDiedDuring(b) ==
    /\ heap[b.highestRadiationPlayer].lastDeathTime >= b.startTime
    /\ heap[b.highestRadiationPlayer].lastDeathTime < b.startTime + proximityKillTime

\* C20: once the victim of a battle has died of another cause before the
\* countdown of the battle elapsed, no step resolves that battle with a kill:
\* no proximity_kill of that battle is broadcast, and so none of its members
\* is given a kill credit or the kill bonus by it.
C20_NoCreditAfterVictimDied ==
    [][\A i \in 1..Len(proximityBattles) :
         VictimDiedDuring(proximityBattles[i]) =>
            ~\E k \in 1..Len(out') :
                /\ out'[k].ev = "proximity_kill"
                /\ out'[k].battlePlayers = proximityBattles[i].players
      ]_vars

\* the key is the signature of a living registered player that has a living
\* player within the proximity-kill distance, as the pass finds them
Reproduced(key) ==
    \E id \in Range(players') :
       LET enemies == {o \in Range(players') \ {id} : heap[o].isAlive /\ Near(id, o)}
       IN  heap[id].isAlive /\ enemies # {} /\ Range(key) = enemies \cup {id}

\* the battles of the map whose countdown the pass finds elapsed
Due == {i \in 1..Len(proximityBattles) :
           /\ Reproduced(proximityBattles[i].key)
           /\ now - proximityBattles[i].startTime >= proximityKillTime}

\* the players that earlier battles of the same pass have found dead or killed
Fallen(i) == {proximityBattles[j].highestRadiationPlayer : j \in {k \in Due : k < i}}

LiveAt(m, i) == heap[m].isAlive /\ m \notin Fallen(i)

\* the battles whose victim is alive when the pass comes to them
Kills == {i \in Due : LiveAt(proximityBattles[i].highestRadiationPlayer, i)}

Credits(m) ==
    Cardinality({i \in Kills : /\ m \in Range(proximityBattles[i].players)
                               /\ m # proximityBattles[i].highestRadiationPlayer
                               /\ LiveAt(m, i)})

\* C21: a battle pass resolves every battle whose countdown has elapsed and
\* whose signature is still reproduced: its victim, if alive then, dies
\* (deathCount + 1), every other member alive then gets killCount + 1 and
\* score + 25, nobody else gets anything, and the battle leaves the map
\* whether or not its victim was alive.
C21_TimeoutKillsVictimAndCreditsOthers ==
    [][BattlePass' =>
         /\ \A i \in Due : ~hasBattle(proximityBattles', proximityBattles[i].key)
         /\ \A m \in DOMAIN heap :
               /\ heap'[m].killCount = heap[m].killCount + Credits(m)
               /\ heap'[m].score = heap[m].score + killBonus * Credits(m)
               /\ heap'[m].deathCount = heap[m].deathCount +
                     (IF \E i \in Kills : proximityBattles[i].highestRadiationPlayer = m
                      THEN 1 ELSE 0)
               /\ (\E i \in Kills : proximityBattles[i].highestRadiationPlayer = m)
                     => ~heap'[m].isAlive /\ heap'[m].lastDeathTime = now
      ]_vars

\* a pass has just resolved elapsed battles: one player was killed by it,
\* another holds one kill credit and the bonus, and no battle is left
C21_Witness ==
    /\ BattlePass
    /\ proximityBattles = <<>>
    /\ \E v, m \in Range(players) :
          /\ Emitted("proximity_kill", v)
          /\ ~heap[v].isAlive /\ heap[v].lastDeathTime = now /\ heap[v].deathCount = 1
          /\ heap[m].isAlive /\ heap[m].killCount = 1 /\ heap[m].score = killBonus

----------------------------------------------------------------------------
(* SpecDuel: two players move and take radiation between the passes of the  *)
(* world loop (part_000)                                                    *)

DuelSpawn == {At(10, 0, 0), At(40, 0, 0)}
DuelData == {[x |-> 10], [x |-> 100], [radiationLevel |-> Pct(50)]}

NextDuel ==
    \/ \E id \in Ids, pos \in DuelSpawn :
          now <= StartTime + JoinWindow /\ connection(id, pos)
    \/ \E id \in Ids, data \in DuelData, pos \in DuelSpawn : player_update(id, data, pos)
    \/ \E pos \in DuelSpawn :
          worldLoopIsNext /\ worldTick([id \in DOMAIN heap |-> pos])
    \/ \E i \in 1..2 : respawnIsNext(i) /\ respawnTimer(i)
    \/ noTimerDue /\ AdvanceTime(worldInterval, BattleHorizon)

SpecDuel == InitBattle /\ [][NextDuel]_vars

C23_SurvivingBattleKeepsStartAndVictim ==
    [][BattlePass' =>
         \A i \in 1..Len(proximityBattles) :
            (/\ Reproduced(proximityBattles[i].key)
             /\ now - proximityBattles[i].startTime < proximityKillTime)
              => /\ \E j \in 1..Len(proximityBattles') :
                       proximityBattles'[j] = proximityBattles[i]
                 /\ \A j \in 1..Len(proximityBattles') :
                       proximityBattles'[j].key = proximityBattles[i].key
                          => proximityBattles'[j] = proximityBattles[i]
      ]_vars

\* a battle formed one pass ago is still in the map after this pass, although
\* its victim now has less radiation than the other member
C23_Witness ==
    /\ BattlePass
    /\ Len(proximityBattles) = 1
    /\ proximityBattles[1].startTime = now - worldInterval
    /\ \E m \in Range(proximityBattles[1].players) :
          /\ heap[m].isAlive
          /\ heap[proximityBattles[1].highestRadiationPlayer].isAlive
          /\ heap[m].radiationLevel
                > heap[proximityBattles[1].highestRadiationPlayer].radiationLevel

----------------------------------------------------------------------------
(* SpecLeave: three players join, stay silent and leave while the world     *)
(* loop runs, up to the purge of the inactive (part_000)                    *)

LeaveHorizon == 65000

NextLeave ==
    \/ \E id \in BattleIds, pos \in Spawn :
          now <= StartTime + JoinWindow /\ connection(id, pos)
    \/ \E id \in BattleIds : disconnect(id)
    \/ \E pos \in Spawn :
          worldLoopIsNext /\ worldTick([id \in DOMAIN heap |-> pos])
    \/ \E i \in 1..3 : respawnIsNext(i) /\ respawnTimer(i)
    \/ noTimerDue /\ AdvanceTime(worldInterval, LeaveHorizon)

SpecLeave == InitBattle /\ [][NextLeave]_vars

\* C24: no battle of the map refers to a player that is not in the registry,
\* neither in its key nor in its member list nor as its designated victim.
C24_NoBattleRefersToRemovedPlayer ==
    \A i \in 1..Len(proximityBattles) :
       /\ Range(proximityBattles[i].key) \subseteq Range(players)
       /\ Range(proximityBattles[i].players) \subseteq Range(players)
       /\ proximityBattles[i].highestRadiationPlayer \in Range(players)

----------------------------------------------------------------------------
(* Properties of a player's removal                                         *)

\* C25: the collector of every unavailable world object is a registered
\* player.
C25_CollectorIsRegistered ==
    \A o \in DOMAIN worldObjects :
       ~worldObjects[o].available => worldObjects[o].collectedBy \in Range(players)

\* C26: a respawn timer that fires for a player that is no longer in the
\* registry changes no player and emits neither player_respawn nor
\* respawn_complete for that player.
C26_NoRespawnOfRemovedPlayer ==
    [][(last'.op = "respawn" /\ last'.id \notin Range(players))
         => /\ heap' = heap
            /\ \A k \in 1..Len(out') :
                  out'[k].who = last'.id
                     => out'[k].ev \notin {"player_respawn", "respawn_complete"}
      ]_vars

----------------------------------------------------------------------------
(* SpecWarn: players report radiation around the warning thresholds between *)
(* the runs of the radiation loop (part_000)                                *)

WarnData == {[radiationLevel |-> Pct(59)],
             [radiationLevel |-> Pct(60) - radiationIncrement],
             [radiationLevel |-> Pct(60)],
             [radiationLevel |-> Pct(80) - 1],
             [radiationLevel |-> Pct(80) + 1]}

NextWarn ==
    \/ \E id \in RadIds, pos \in RadSpawn : connection(id, pos)
    \/ \E id \in RadIds, data \in WarnData, pos \in RadSpawn : player_update(id, data, pos)
    \/ radiationTick
    \/ now < intervals.radiation /\ AdvanceTime(radiationInterval, RadHorizon)

SpecWarn == InitRad /\ [][NextWarn]_vars

Warned(evs, level, id) ==
    {k \in 1..Len(evs) : evs[k].ev = level /\ evs[k].to = id}

\* C27: a run of the radiation loop sends a player the warning of a threshold
\* (60 'high', 80 'critical') only when the run itself takes the player's
\* level from below the threshold to the threshold or above, and then once:
\* a player whose level was already at or above the threshold before the run
\* gets no warning for it.
C27_WarningOnlyOnCrossing ==
    [][last'.op = "radiationTick" =>
         \A id \in DOMAIN heap :
            /\ Cardinality(Warned(out', "radiation_warning_critical", id)) <= 1
            /\ Cardinality(Warned(out', "radiation_warning_high", id)) <= 1
            /\ Warned(out', "radiation_warning_critical", id) # {}
                  => /\ heap[id].radiationLevel < Pct(80)
                     /\ heap'[id].radiationLevel >= Pct(80)
            /\ Warned(out', "radiation_warning_high", id) # {}
                  => /\ heap[id].radiationLevel < Pct(60)
                     /\ heap'[id].radiationLevel >= Pct(60)
      ]_vars

\* the loop has just run twice in a row on a player that it took to 60 in its
\* first run: the second run sends the player no warning
C27_Witness ==
    /\ last.op = "radiationTick"
    /\ \E id \in Range(players) :
          /\ heap[id].isAlive
          /\ heap[id].lastUpdate <= now - 2 * radiationInterval
          /\ heap[id].radiationLevel = Pct(60) + radiationIncrement
          /\ Warned(out, "radiation_warning_high", id) = {}

----------------------------------------------------------------------------
(* SpecSpeed: one player with kill credits collects, reports and asks for   *)
(* boosts while the speed boost cleanup loop runs (part_000)                *)

SpeedKills == {0, 1, 12, 13, 16}
SpeedData == {[x |-> 10], [x |-> 20]}
SpeedHorizon == 6000

\* player 1 has joined at the start and holds the bonus of its kill credits
InitSpeed ==
    \E kills \in SpeedKills :
       /\ now = StartTime
       /\ heap = <<[Player(1, At(10, 0, 0), StartTime)
                      EXCEPT !.killCount = kills, !.score = kills * killBonus]>>
       /\ players = <<1>>
       /\ worldObjects = generateWorld(DeathLayout)
       /\ proximityBattles = <<>>
       /\ timers = <<>>
       /\ intervals = [world |-> StartTime + worldInterval,
                       radiation |-> StartTime + radiationInterval,
                       speed |-> StartTime + speedInterval]
       /\ out = <<>>
       /\ last = Last("init", 0, <<>>, NoResult)
       /\ variant = "pvp"

NextSpeed ==
    \/ \E data \in SpeedData, pos \in Spawn : player_update(1, data, pos)
    \/ \E o \in 1..2, red \in Reduction : collect_resource(1, o, red)
    \/ \E reason \in {"collection", "other"} : request_speed_boost(1, reason)
    \/ speedTick
    \/ now < intervals.speed /\ AdvanceTime(speedInterval, SpeedHorizon)

SpecSpeed == InitSpeed /\ [][NextSpeed]_vars

\* C28: a run of the speed boost cleanup loop sends speed_boost_ended only to
\* a player whose boost window has elapsed and whose multiplier has not been
\* recomputed since it elapsed: not to a player whose last update, which
\* recomputes the multiplier, came at or after the end of the window.
C28_EndedOnlyForUnprocessedBoost ==
    [][last'.op = "speedTick" =>
         \A id \in DOMAIN heap :
            (\E k \in 1..Len(out') : out'[k].ev = "speed_boost_ended" /\ out'[k].to = id)
               => /\ now > heap[id].speedBoostEndTime
                  /\ heap[id].lastUpdate < heap[id].speedBoostEndTime
      ]_vars

\* the multiplier of a player has just been recomputed, by an update of the
\* living player or by the cleanup loop
Recomputed(id) ==
    \/ last'.op = "player_update" /\ last'.id = id /\ Registered(id) /\ heap[id].isAlive
    \/ /\ last'.op = "speedTick"
       /\ \E k \in 1..Len(out') : out'[k].ev = "speed_boost_ended" /\ out'[k].to = id

\* C29: a recompute sets the multiplier to the boost value 3.5 when
\* now < speedBoostEndTime, whatever the score, and otherwise to
\* baseSpeed + min(score * 0.005, maxScoreSpeed - baseSpeed), which lies in
\* [1.0, 2.5].
C29_MultiplierAfterRecompute ==
    [][\A id \in DOMAIN heap :
         Recomputed(id) =>
            IF now < heap'[id].speedBoostEndTime
            THEN heap'[id].currentSpeedMultiplier = boostSpeed
            ELSE /\ heap'[id].currentSpeedMultiplier
                       = baseSpeed + Min(heap'[id].score * scoreSpeedBonus,
                                         maxScoreSpeed - baseSpeed)
                 /\ heap'[id].currentSpeedMultiplier >= baseSpeed
                 /\ heap'[id].currentSpeedMultiplier <= maxScoreSpeed
      ]_vars

\* an update has just recomputed the multiplier of a player whose score
\* bonus is capped: 2.5 outside a boost window
C29_Witness ==
    /\ last.op = "player_update"
    /\ heap[1].score * scoreSpeedBonus > maxScoreSpeed - baseSpeed
    /\ now >= heap[1].speedBoostEndTime
    /\ heap[1].speedBoostEndTime > 0
    /\ heap[1].currentSpeedMultiplier = maxScoreSpeed

----------------------------------------------------------------------------
(* SpecUpdate: players report positions and rotations, zeros included, in   *)
(* either variant                                                           *)

UpdateData == {[x |-> 0], [x |-> 5], [y |-> 0, rotationX |-> 7], [z |-> 3, rotationY |-> 0],
               [x |-> 5, y |-> 6, z |-> 7, rotationX |-> 1, rotationY |-> 2]}

NextUpdate ==
    \/ \E id \in Ids, pos \in Spawn : connection(id, pos)
    \/ \E id \in Ids, data \in UpdateData, pos \in Spawn : player_update(id, data, pos)
    \/ \E pick \in DeathPicks : srv_connection(1, pick)
    \/ \E data \in UpdateData, pick \in DeathPicks : srv_player_update(1, data, pick)

SpecUpdate == InitDeath /\ [][NextUpdate]_vars

\* C30: an update of a registered player, alive where the variant knows of
\* life, sets each of x, y, z, rotationX, rotationY to the value the message
\* carries, 0 included, and keeps the previous value of each field the
\* message omits.
C30_UpdateOverwritesCarriedFields ==
    [][(/\ last'.op = "player_update"
        /\ Registered(last'.id)
        /\ (variant = "srv" \/ heap[last'.id].isAlive)
        /\ \A k \in 1..Len(out') : out'[k].ev # "player_death")
         => \A f \in {"x", "y", "z", "rotationX", "rotationY"} :
               heap'[last'.id][f] = IF f \in DOMAIN last'.arg THEN last'.arg[f]
                                    ELSE heap[last'.id][f]
      ]_vars

----------------------------------------------------------------------------
(* SpecFlee: a player moves among creatures near the bounds of the world,   *)
(* another stands still, while the world loop of server.js runs;            *)
(* coordinates in quarter units                                             *)

FleeLayout == <<[type |-> "discovery", x |-> 40, y |-> 0, z |-> 0],
                [type |-> "spaceCreature", x |-> 4996, y |-> 0, z |-> 0],
                [type |-> "rare", x |-> 0, y |-> 1198, z |-> 0],
                [type |-> "rare", x |-> 16, y |-> 0, z |-> 0]>>
FleeData == {[x |-> 4800, y |-> 8], [x |-> 8, y |-> 1000], [x |-> 40, y |-> 8]}
FleeHorizon == 6000

\* player 1 has joined an empty world, at the origin, and has collected the
\* rare object 4 next to it; player 2 has then spawned 250 units from player 1
InitFlee ==
    LET W0 == [heap |-> <<>>, players |-> <<>>, worldObjects |-> generateWorld(FleeLayout),
               proximityBattles |-> <<>>, timers |-> <<>>, out |-> <<>>, ret |-> NoResult]
        pick == [target |-> 0, dx |-> 250 * fleeScale, dy |-> 0, dz |-> 0, rotation |-> 3142]
        W1 == [W0 EXCEPT !.heap = <<srv_Player(W0, 1, pick, StartTime)>>,
                         !.players = <<1>>]
        W2 == srv_handleResourceCollection(W1, 1, 4, Pct(25), StartTime)
        W3 == [W2 EXCEPT !.heap = @ \o <<srv_Player(W2, 2, pick, StartTime)>>,
                         !.players = <<1, 2>>]
    IN  /\ now = StartTime
        /\ heap = W3.heap
        /\ players = W3.players
        /\ worldObjects = W3.worldObjects
        /\ proximityBattles = <<>>
        /\ timers = <<>>
        /\ intervals = [world |-> StartTime + srv_worldInterval,
                        radiation |-> StartTime + radiationInterval,
                        speed |-> StartTime + speedInterval]
        /\ out = <<>>
        /\ last = Last("init", 0, <<>>, NoResult)
        /\ variant = "srv"

NextFlee ==
    \/ \E data \in FleeData, pick \in DeathPicks : srv_player_update(1, data, pick)
    \/ srv_worldTick
    \/ now < intervals.world /\ AdvanceTime(srv_worldInterval, FleeHorizon)

SpecFlee == InitFlee /\ [][NextFlee]_vars

InBounds(obj) ==
    /\ -((worldSize * fleeScale) \div 2) <= obj.x /\ obj.x <= (worldSize * fleeScale) \div 2
    /\ -((worldSize * fleeScale) \div 2) <= obj.z /\ obj.z <= (worldSize * fleeScale) \div 2
    /\ -(worldHeight * fleeScale) <= obj.y /\ obj.y <= worldHeight * fleeScale

\* C31: in server.js an object changes its position only in a run of the
\* world loop, and only if it is a spaceCreature or a rare, is available, and
\* the nearest registered player is closer than the flee-trigger distance;
\* and every object lies within the world bounds in every state.
C31_OnlyCreaturesFleeWithinBounds ==
    /\ [](\A o \in DOMAIN worldObjects : InBounds(worldObjects[o]))
    /\ [][\A o \in DOMAIN worldObjects :
            (\/ worldObjects'[o].x # worldObjects[o].x
             \/ worldObjects'[o].y # worldObjects[o].y
             \/ worldObjects'[o].z # worldObjects[o].z)
              => /\ last'.op = "worldTick"
                 /\ worldObjects[o].type \in {"spaceCreature", "rare"}
                 /\ worldObjects'[o].available
                 /\ \E p \in Range(players) :
                       /\ \A q \in Range(players) :
                             Dist2(heap[p], worldObjects[o]) <= Dist2(heap[q], worldObjects[o])
                       /\ Dist2(heap[p], worldObjects[o])
                             < (creatureFleeDistance * fleeScale) * (creatureFleeDistance * fleeScale)
        ]_vars

\* the world loop has just run with player 1 within the flee distance of the
\* discovery and of the collected rare, which have stayed, after the space
\* creature has fled to the edge of the world and the rare to its ceiling
C31_Witness ==
    /\ last.op = "worldTick"
    /\ heap[1].x = 40 /\ heap[1].y = 8
    /\ worldObjects[1].x = 40
    /\ ~worldObjects[4].available /\ worldObjects[4].x = 16
    /\ worldObjects[2].x = (worldSize * fleeScale) \div 2
    /\ worldObjects[3].y = worldHeight * fleeScale

----------------------------------------------------------------------------
(* Properties of contended collection                                       *)

\* both attempts of one tick, a's first: the state after the two calls of
\* handleResourceCollection
BothAttempt(a, b, o) ==
    handleResourceCollection(handleResourceCollection(World, a, o, Pct(25), now),
                             b, o, Pct(25), now)

\* C32: when two living players within the collect radius of an available
\* object both attempt it, and one of them is strictly closer to it than
\* every other living player, then in either order of the two attempts that
\* player ends as the collector, with the points of the object added to its
\* score, and every other score is unchanged.
C32_OrderOfAttemptsDoesNotMatter ==
    \A o \in DOMAIN worldObjects : \A a, b \in Range(players) :
       (/\ a # b
        /\ worldObjects[o].available
        /\ heap[a].isAlive /\ heap[b].isAlive
        /\ InRange(a, o) /\ InRange(b, o)
        /\ \A c \in Range(players) \ {a} :
              heap[c].isAlive => Dist2(worldObjects[o], heap[a]) < Dist2(worldObjects[o], heap[c]))
         => \A W \in {BothAttempt(a, b, o), BothAttempt(b, a, o)} :
               /\ ~W.worldObjects[o].available
               /\ W.worldObjects[o].collectedBy = a
               /\ W.heap[a].score = heap[a].score + Points(o)
               /\ \A c \in Range(players) \ {a} : W.heap[c].score = heap[c].score

\* the farther of two players within the collect radius has attempted first
\* and lost the object to the closer, whose own attempt then found it taken
C32_Witness ==
    /\ last.op = "collect_resource"
    /\ ~last.result.success
    /\ \E b \in Range(players) \ {last.id} :
          /\ heap[b].isAlive /\ heap[last.id].isAlive
          /\ InRange(b, 1) /\ InRange(last.id, 1)
          /\ Dist2(worldObjects[1], heap[last.id]) < Dist2(worldObjects[1], heap[b])
          /\ worldObjects[1].collectedBy = last.id
          /\ heap[last.id].resourcesStolen = 1
          /\ heap[b].resourcesLost = 1
          /\ heap[last.id].score = Points(1) /\ heap[b].score = 0

\* C33: whenever a step makes an available object collected, the player it
\* records in collectedBy is a living registered player within the collect
\* radius of the type, and no living registered player is closer to the
\* object.
C33_CollectorIsAliveNearAndClosest ==
    [][\A o \in DOMAIN worldObjects :
         (worldObjects[o].available /\ ~worldObjects'[o].available)
            => /\ worldObjects'[o].collectedBy \in Range(players)
               /\ heap[worldObjects'[o].collectedBy].isAlive
               /\ InRange(worldObjects'[o].collectedBy, o)
               /\ \A q \in Range(players) :
                     heap[q].isAlive
                        => Dist2(worldObjects[o], heap[worldObjects'[o].collectedBy])
                              <= Dist2(worldObjects[o], heap[q])
      ]_vars

\* three living players stand at three distances from the object, and the
\* attempt of the middle one has just given it to the closest
C33_Witness ==
    /\ last.op = "collect_resource"
    /\ last.result.reason = "stolen"
    /\ Len(players) = 3
    /\ \A q \in Range(players) : heap[q].isAlive
    /\ \E c, m \in Range(players) :
          /\ worldObjects[1].collectedBy = c
          /\ Dist2(worldObjects[1], heap[c]) < Dist2(worldObjects[1], heap[last.id])
          /\ Dist2(worldObjects[1], heap[last.id]) < Dist2(worldObjects[1], heap[m])
          /\ InRange(last.id, 1)

----------------------------------------------------------------------------
(* SpecDead: two players live, die and respawn under every handler and      *)
(* every loop that writes to a player (part_000)                            *)

\* the loops run in the order of their expiry: the speed boost cleanup, the
\* radiation damage, then the respawn timeouts and the world loop
NextDead ==
    \/ \E id \in Ids, pos \in Spawn : now = StartTime /\ connection(id, pos)
    \/ \E id \in Ids, data \in Data, pos \in Spawn :
          /\ now = StartTime \/ "radiationLevel" \in DOMAIN data
          /\ player_update(id, data, pos)
    \/ \E id \in Ids, red \in Reduction : now = StartTime /\ collect_resource(id, 1, red)
    \/ \E id \in Ids : now = StartTime /\ request_speed_boost(id, "collection")
    \/ speedTick
    \/ now < intervals.speed /\ radiationTick
    \/ \E pos \in Spawn :
          /\ now < intervals.speed /\ now < intervals.radiation /\ worldLoopIsNext
          /\ worldTick([id \in DOMAIN heap |-> pos])
    \/ \E i \in 1..2 :
          /\ now < intervals.speed /\ now < intervals.radiation /\ respawnIsNext(i)
          /\ respawnTimer(i)
    \/ noTimerDue /\ AdvanceTime(worldInterval, BattleHorizon)

SpecDead == Init /\ [][NextDead]_vars

\* what a dead player keeps: position, radiation, score and counters
Kept(p) ==
    <<p.x, p.y, p.z, p.radiationLevel, p.score, p.discoveries, p.rareItems, p.creatures,
      p.resourcesStolen, p.resourcesLost, p.killCount>>

\* C34: a registered player that is dead has radiation 0, and every step
\* other than its respawn leaves it dead with the same position, radiation,
\* score, collection counters, theft counters and kill count.
C34_TheDeadAreUntouched ==
    /\ [](\A id \in Range(players) : ~heap[id].isAlive => heap[id].radiationLevel = 0)
    /\ [][\A id \in Range(players) :
            ~heap[id].isAlive =>
               \/ last'.op = "respawn" /\ last'.id = id /\ heap'[id].isAlive
               \/ ~heap'[id].isAlive /\ Kept(heap'[id]) = Kept(heap[id])
        ]_vars

\* the radiation loop has just run over a dead player and a living one: the
\* living one has taken its half percent, the dead one is as it died
C34_Witness ==
    /\ last.op = "radiationTick"
    /\ \E d, a \in Range(players) :
          /\ ~heap[d].isAlive /\ heap[d].radiationLevel = 0 /\ heap[d].deathCount = 1
          /\ heap[a].isAlive /\ heap[a].radiationLevel = radiationIncrement
          /\ heap[a].score = Points(1)

----------------------------------------------------------------------------
(* FairRad: SpecRad with the runtime keeping time and firing expired        *)
(* timeouts                                                                 *)

FairRad ==
    /\ SpecRad
    /\ WF_vars(AdvanceTime(2000, RadHorizon))
    /\ WF_vars(\E i \in 1..2 : respawnTimer(i))

\* C35: a player is dead exactly when one respawn timeout is pending for it,
\* and a living player has none; a step makes a dead player alive only by
\* firing its timeout, which leaves none pending; and a dead player whose
\* timeout expires within the time of the model becomes alive again.
C35_OneRespawnPerDeath ==
    /\ [](\A id \in DOMAIN heap :
             CountTimers(timers, id) = IF heap[id].isAlive THEN 0 ELSE 1)
    /\ [][\A id \in DOMAIN heap :
            (~heap[id].isAlive /\ heap'[id].isAlive)
               => /\ last'.op = "respawn" /\ last'.id = id
                  /\ CountTimers(timers', id) = 0
                  /\ heap'[id].deathCount = heap[id].deathCount
        ]_vars
    /\ \A id \in RadIds :
          (/\ id \in DOMAIN heap /\ ~heap[id].isAlive
           /\ \E i \in 1..Len(timers) :
                 timers[i].player = id /\ timers[i].due <= StartTime + RadHorizon)
             ~> (id \in DOMAIN heap /\ heap[id].isAlive)

\* a player that died once has just been respawned by its timeout
C35_Witness ==
    /\ last.op = "respawn"
    /\ heap[last.id].isAlive
    /\ heap[last.id].deathCount = 1
    /\ CountTimers(timers, last.id) = 0
    /\ now >= heap[last.id].lastDeathTime + playerRespawnTime

----------------------------------------------------------------------------
(* FairPurge: two players join, stay silent and leave while the runtime     *)
(* keeps time, runs the world loop and fires expired timeouts, past the     *)
(* purge of the inactive (part_000)                                         *)

PurgeHorizon == 75000

NextPurge ==
    \/ \E id \in Ids, pos \in Spawn :
          now <= StartTime + JoinWindow /\ connection(id, pos)
    \/ \E id \in Ids : disconnect(id)
    \/ \E pos \in Spawn :
          worldLoopIsNext /\ worldTick([id \in DOMAIN heap |-> pos])
    \/ \E i \in 1..2 : respawnIsNext(i) /\ respawnTimer(i)
    \/ noTimerDue /\ AdvanceTime(worldInterval, PurgeHorizon)

FairPurge ==
    /\ InitBattle /\ [][NextPurge]_vars
    /\ WF_vars(noTimerDue /\ AdvanceTime(worldInterval, PurgeHorizon))
    /\ WF_vars(\E i \in 1..2 : respawnIsNext(i) /\ respawnTimer(i))
    \* the weak fairness of the world loop, its enabling condition written out
    /\ \/ []<>(~(worldLoopIsNext /\ now >= intervals.world))
       \/ []<><<\E pos \in Spawn :
                  worldLoopIsNext /\ worldTick([id \in DOMAIN heap |-> pos])>>_vars

\* C36: every battle of the map is eventually removed from it while the world
\* loop keeps running: the battles started early enough for two further runs
\* of the loop to fit in the time of the model are in the end all gone.
C36_EveryBattleIsEventuallyRemoved ==
    <>[](\A i \in 1..Len(proximityBattles) :
            proximityBattles[i].startTime + 2 * worldInterval > StartTime + PurgeHorizon)

----------------------------------------------------------------------------
(* Properties of the battle map under departures                            *)

\* C37: each battle of the map has at least two members, and its key is the
\* sorted list of the ids of its current members.
C37_KeyIsTheSortedMemberList ==
    \A i \in 1..Len(proximityBattles) :
       /\ Len(proximityBattles[i].players) >= 2
       /\ proximityBattles[i].key = sortIds(proximityBattles[i].players)

----------------------------------------------------------------------------
(* Conservation of collection credits                                       *)

\* the sum of field f over the player objects h
Total(h, f) ==
    LET sum[S \in SUBSET DOMAIN h] ==
            IF S = {} THEN 0
            ELSE LET id == CHOOSE id \in S : TRUE IN h[id][f] + sum[S \ {id}]
    IN  sum[DOMAIN h]

\* C38: while every player that connected is still registered, the theft
\* credits of all players add up to their loss credits, and a collection
\* attempt raises the sum of all scores by the point value of the object when
\* it ends in a collection or a theft, and by nothing otherwise, the points
\* going to exactly one player.
C38_CreditsAndPointsAreConserved ==
    /\ [](Range(players) = DOMAIN heap
             => Total(heap, "resourcesStolen") = Total(heap, "resourcesLost"))
    /\ [][(Range(players') = DOMAIN heap' /\ last'.op = "collect_resource")
            => LET event == last'.result.reason \in {"collected", "stolen"}
               IN  /\ Total(heap', "score")
                        = Total(heap, "score") + (IF event THEN Points(last'.arg) ELSE 0)
                   /\ Cardinality({id \in DOMAIN heap : heap'[id].score # heap[id].score})
                        = IF event THEN 1 ELSE 0
        ]_vars

\* the object, taken once by theft, has just been stolen a second time
\* after its respawn
C38_Witness ==
    /\ Range(players) = DOMAIN heap
    /\ last.op = "collect_resource" /\ last.result.reason = "stolen"
    /\ Total(heap, "resourcesStolen") = 2
    /\ Total(heap, "resourcesLost") = 2
    /\ Total(heap, "score") = 2 * Points(1)

----------------------------------------------------------------------------
(* The boost window and the collections behind it                           *)

\* C39: the boost window of a player ends no later than boostRequestWindow
\* plus boostDuration after its most recent collection or theft award, and a
\* player that has collected nothing has no boost window.
C39_BoostWindowIsBoundedByCollections ==
    \A id \in DOMAIN heap :
       LET held == {o \in DOMAIN worldObjects : worldObjects[o].collectedBy = id}
       IN  /\ held = {} => heap[id].speedBoostEndTime = 0
           /\ \A o \in held :
                 (\A q \in held : worldObjects[q].collectedAt <= worldObjects[o].collectedAt)
                    => heap[id].speedBoostEndTime
                          <= worldObjects[o].collectedAt + boostRequestWindow + boostDuration

====
